---- MODULE Spec2Model ----
(***************************************************************************)
(* A model of hugo-mcp: the tool operations of src/main.py and the         *)
(* library operations of src/utils/*.py, each one action, acting on the    *)
(* process-wide state they share: the working directory, the file system,  *)
(* the search path and the operating system's process table.               *)
(*                                                                         *)
(* A path is a sequence of names (<<>> is the root); a path argument is    *)
(* [abs, p], resolved against the working directory when abs is FALSE.     *)
(* A text file is the sequence of its lines, a line the sequence of its    *)
(* tokens.  An external command ends "ok" (exit 0), "fail" (exit           *)
(* non-zero: CalledProcessError under check=True) or "missing" (no such    *)
(* executable: FileNotFoundError).                                         *)
(***************************************************************************)
EXTENDS Integers, Sequences, FiniteSets, TLC

VARIABLES
    cwd,        \* os.getcwd() of the server process
    fsDirs,     \* the directories that exist
    fsFiles,    \* the files that exist: path -> content
    path,       \* the executables found on the search path
    system,     \* platform.system().lower()
    procs,      \* the OS process table: pid -> [state, child, mine]
    active,     \* subprocess._active: children dropped while still running
    last,       \* the outcome of the last operation
    prev,       \* the outcome of the operation before it
    loop        \* the event loop: the requests it holds and the one it runs

vars == <<cwd, fsDirs, fsFiles, path, system, procs, active, last, prev, loop>>

----------------------------------------------------------------------------
(* Paths *)

Abs(p) == [abs |-> TRUE, p |-> p]
Rel(p) == [abs |-> FALSE, p |-> p]

\* os.path resolution of a path argument against the working directory
Resolve(c, a) == IF a.abs THEN a.p ELSE c \o a.p

\* Path(a) / name
Join(a, name) == [abs |-> a.abs, p |-> Append(a.p, name)]

Prefixes(p) == {SubSeq(p, 1, i) : i \in 0..Len(p)}

IsPrefix(p, q) == Len(p) <= Len(q) /\ SubSeq(q, 1, Len(p)) = p

\* the entries of directory p (Path.iterdir)
Children(dirs, files, p) ==
    {q \in dirs \cup DOMAIN files : Len(q) = Len(p) + 1 /\ IsPrefix(p, q)}

Basename(p) == IF Len(p) = 0 THEN "" ELSE p[Len(p)]

\* os.path.isdir
IsDir(dirs, c, a) == Resolve(c, a) \in dirs

\* os.path.exists / Path.exists
Exists(dirs, files, c, a) ==
    Resolve(c, a) \in dirs \/ Resolve(c, a) \in DOMAIN files

\* f with file p set to content
WriteFile(files, p, content) ==
    [q \in DOMAIN files \cup {p} |-> IF q = p THEN content ELSE files[q]]

----------------------------------------------------------------------------
(* Result envelopes and operation outcomes *)

NoData == [none |-> TRUE]

\* {"status": status, "message": msg + detail, **data}; msg = "" when the
\* envelope has no message key
Envelope(status, msg, detail, data) ==
    [status |-> status, msg |-> msg, detail |-> detail, data |-> data]

\* no envelope: the operation raised
NoEnvelope == Envelope("none", "", "", NoData)

\* one launch of an external command and how it ended
Cmd(exe, argv, dir, out) ==
    [exe |-> exe, argv |-> argv, dir |-> dir, out |-> out, caught |-> FALSE]

\* subprocess.run / Popen of exe with the search path pth: "missing" when the
\* executable is not found, else the outcome the tool chose
Launch(pth, exe, chosen) == IF exe \in pth THEN chosen ELSE "missing"

ToolOutcomes == {"ok", "fail"}

\* str(e) of the exception a command outcome raises under check=True
ErrText(exe, out) ==
    IF out = "missing" THEN "[Errno 2] No such file or directory"
    ELSE "Command returned non-zero exit status"

\* the process-wide state an operation starts from
Snapshot(c, dirs, files, pr) ==
    [cwd |-> c, dirs |-> dirs, files |-> files, procs |-> pr]

NoFiles == [q \in {} |-> << >>]
NoProcs == [q \in {} |-> [state |-> "running", child |-> FALSE, mine |-> FALSE]]

\* the event loop with no request in it
NoLoop == [tasks |-> << >>, current |-> 0]

Idle == [op |-> "none", impl |-> "none", args |-> NoData,
         env |-> NoEnvelope, raised |-> "none", cmds |-> << >>,
         pre |-> Snapshot(<< >>, {}, NoFiles, NoProcs),
         post |-> Snapshot(<< >>, {}, NoFiles, NoProcs)]

\* what is kept of the call before the last one: the call, what it returned,
\* the working directory it started in and, of a stop_preview, the process
\* its pid named
Brief(r) ==
    [op |-> r.op, impl |-> r.impl, args |-> r.args, env |-> r.env, cwd0 |-> r.pre.cwd,
     hit |-> IF r.op = "stop_preview" /\ r.args.pid \in DOMAIN r.pre.procs
             THEN r.pre.procs[r.args.pid]
             ELSE [state |-> "none", child |-> FALSE, mine |-> FALSE]]

\* what an operation hands back: its envelope (or the exception it raised),
\* the commands it launched, and the process-wide state it leaves
Outcome(env, raised, cmds, c, dirs, files) ==
    [env |-> env, raised |-> raised, cmds |-> cmds,
     cwd |-> c, dirs |-> dirs, files |-> files]

\* the record of a finished call: what it returned, the commands it
\* launched, and the process-wide state before and after it
Done(op, impl, args, o, pre, post) ==
    [op |-> op, impl |-> impl, args |-> args,
     env |-> o.env, raised |-> o.raised, cmds |-> o.cmds,
     pre |-> pre, post |-> post]

\* the commands of a call that were really run (their executable was found)
Invoked(r) == {i \in 1..Len(r.cmds) : r.cmds[i].out # "missing"}

----------------------------------------------------------------------------
(* Site lifecycle: create_site *)

\* what "hugo new site" leaves in directory t when it exits 0
SiteSkeleton(dirs, files, t) ==
    [dirs  |-> dirs \cup Prefixes(t) \cup {Append(t, "content")},
     files |-> WriteFile(files, Append(t, "hugo.toml"), <<<<"title = ", "'site'">>>>)]

\* the exit of "hugo new site": the generator refuses a target that is not
\* empty unless --force is given; otherwise it exits as the tool chose
HugoNewSite(dirs, files, t, forced, chosen) ==
    IF ~forced /\ Children(dirs, files, t) # {} THEN "fail" ELSE chosen

CurrentDirNotEmpty ==
    "Current directory is not empty (contains files other than .git). Use force=True to override."
DirNotEmpty == "Directory already exists and is not empty. Use force=True to override."
DirExists == "Directory already exists. Use force=True to overwrite."
FailedCreateSite == "Failed to create Hugo site: "
Unexpected == "Unexpected error: "

\* src/utils/site.py create_site
create_site(c, dirs, files, pth, site_abs_path, site_name, force, in_current_dir, chosen) ==
    LET target == IF in_current_dir THEN site_abs_path ELSE Join(site_abs_path, site_name)
        t      == Resolve(c, target)
    IN
    IF \E q \in Prefixes(t) : q \in DOMAIN files
    THEN \* mkdir raises FileExistsError / NotADirectoryError
         Outcome(Envelope("error", Unexpected, "mkdir", NoData), "none", << >>, c, dirs, files)
    ELSE
    LET dirs1    == dirs \cup Prefixes(t)       \* mkdir(parents=True, exist_ok=True)
        contents == Children(dirs1, files, t)
        has_only_git == Cardinality(contents) = 1
                        /\ \A q \in contents : Basename(q) = ".git"
        is_empty == contents = {}
    IN
    IF in_current_dir /\ ~(is_empty \/ has_only_git) /\ ~force
    THEN Outcome(Envelope("error", CurrentDirNotEmpty, "", NoData), "none", << >>, c, dirs1, files)
    ELSE IF ~in_current_dir /\ contents # {} /\ ~is_empty /\ ~has_only_git /\ ~force
    THEN Outcome(Envelope("error", DirNotEmpty, site_name, NoData), "none", << >>, c, dirs1, files)
    ELSE
    LET c1     == IF in_current_dir THEN t ELSE Resolve(c, site_abs_path)   \* os.chdir
        forced == in_current_dir \/ force
        argv   == IF in_current_dir THEN <<"new", "site", ".", "--force">>
                  ELSE IF force THEN <<"new", "site", site_name, "--force">>
                  ELSE <<"new", "site", site_name>>
        out    == Launch(pth, "hugo", HugoNewSite(dirs1, files, t, forced, chosen))
        cmds   == <<Cmd("hugo", argv, c1, out)>>
        made   == SiteSkeleton(dirs1, files, t)
    IN
    IF out = "ok"
    THEN Outcome(Envelope("success", "stdout", "",
                          [path |-> t, in_current_dir |-> in_current_dir]),
                 "none", cmds, c1, made.dirs, made.files)
    ELSE IF out = "fail"
    THEN Outcome(Envelope("error", FailedCreateSite, ErrText("hugo", out), NoData),
                 "none", cmds, c1, dirs1, files)
    ELSE Outcome(Envelope("error", Unexpected, ErrText("hugo", out), NoData),
                 "none", cmds, c1, dirs1, files)

\* src/main.py create_site (the registered tool)
main_create_site(c, dirs, files, pth, site_abs_path, site_name, force, chosenHugo, chosenGit) ==
    LET site_path == Rel(<<site_name>>)                   \* Path(site_name)
        t         == Resolve(c, Join(site_abs_path, site_name))
        runDir    == Resolve(c, site_abs_path)            \* cwd=site_abs_path
    IN
    IF Exists(dirs, files, c, site_path) /\ ~force
    THEN Outcome(Envelope("error", DirExists, site_name, NoData), "none", << >>, c, dirs, files)
    ELSE IF runDir \notin dirs
    THEN \* Popen with a cwd that does not exist raises FileNotFoundError
         Outcome(Envelope("error", Unexpected, "[Errno 2] No such file or directory: cwd", NoData),
                 "none", << >>, c, dirs, files)
    ELSE
    LET out1  == Launch(pth, "hugo", HugoNewSite(dirs, files, t, FALSE, chosenHugo))
        cmd1  == Cmd("hugo", <<"new", "site", site_name>>, runDir, out1)
        made  == SiteSkeleton(dirs, files, t)
    IN
    IF out1 = "fail"
    THEN Outcome(Envelope("error", FailedCreateSite, ErrText("hugo", out1), NoData),
                 "none", <<cmd1>>, c, dirs, files)
    ELSE IF out1 = "missing"
    THEN Outcome(Envelope("error", Unexpected, ErrText("hugo", out1), NoData),
                 "none", <<cmd1>>, c, dirs, files)
    ELSE
    LET out2 == Launch(pth, "git", chosenGit)
        cmd2 == Cmd("git", <<"init">>, t, out2)
        dirs2 == IF out2 = "ok" THEN made.dirs \cup {Append(t, ".git")} ELSE made.dirs
    IN
    IF out2 = "ok"
    THEN Outcome(Envelope("success", "Hugo site created successfully at ", site_name, NoData),
                 "none", <<cmd1, cmd2>>, t, dirs2, made.files)
    ELSE IF out2 = "fail"
    THEN Outcome(Envelope("error", FailedCreateSite, ErrText("git", out2), NoData),
                 "none", <<cmd1, cmd2>>, t, dirs2, made.files)
    ELSE Outcome(Envelope("error", Unexpected, ErrText("git", out2), NoData),
                 "none", <<cmd1, cmd2>>, t, dirs2, made.files)

----------------------------------------------------------------------------
(* The site-creation specification *)

W == <<"w">>
S == <<"w", "s">>

SiteRoots == {Abs(W), Rel(W), Abs(S)}
SiteNames == {"s"}

\* the directories the calls of the model aim at
SiteTargets == {W, S, <<"w", "w">>}

\* what the directory w/s may hold when the server starts
SiteEntries == {<<"w", "s", ".git">>, <<"w", "s", "f">>}

Here == Snapshot(cwd, fsDirs, fsFiles, procs)

\* subprocess._cleanup, which every Popen starts with: the children in
\* _active that have exited are waited for, and leave the process table
Reaped(pr, act) ==
    [q \in {r \in DOMAIN pr : ~(r \in act /\ pr[r].state = "zombie")} |-> pr[q]]

StillActive(pr, act) == {q \in act : q \in DOMAIN pr /\ pr[q].state = "running"}

\* an operation's outcome becomes the state; an operation that launched a
\* command also ran subprocess._cleanup
CommitLast(op, impl, args, o) ==
    /\ cwd' = o.cwd
    /\ fsDirs' = o.dirs
    /\ fsFiles' = o.files
    /\ procs' = IF o.cmds # << >> THEN Reaped(procs, active) ELSE procs
    /\ active' = IF o.cmds # << >> THEN StillActive(procs, active) ELSE active
    /\ last' = Done(op, impl, args, o, Here, Snapshot(cwd', fsDirs', fsFiles', procs'))
    /\ UNCHANGED loop

Commit(op, impl, args, o) ==
    /\ CommitLast(op, impl, args, o)
    /\ prev' = Brief(last)

CreateSite ==
    \E root \in SiteRoots, name \in SiteNames, force \in BOOLEAN,
       in_current_dir \in BOOLEAN, chosen \in ToolOutcomes :
        /\ Resolve(cwd, IF in_current_dir THEN root ELSE Join(root, name)) \in SiteTargets
        /\ CommitLast("create_site", "utils",
                  [site_abs_path |-> root, site_name |-> name, force |-> force,
                   in_current_dir |-> in_current_dir,
                   target |-> IF in_current_dir THEN root ELSE Join(root, name)],
                  create_site(cwd, fsDirs, fsFiles, path, root, name, force,
                              in_current_dir, chosen))
        /\ UNCHANGED <<path, system, prev>>

MainCreateSite ==
    \E root \in SiteRoots, name \in SiteNames, force \in BOOLEAN,
       chosenHugo \in ToolOutcomes, chosenGit \in ToolOutcomes :
        /\ Resolve(cwd, Join(root, name)) \in SiteTargets
        /\ CommitLast("create_site", "main",
                  [site_abs_path |-> root, site_name |-> name, force |-> force,
                   in_current_dir |-> FALSE, target |-> Join(root, name)],
                  main_create_site(cwd, fsDirs, fsFiles, path, root, name, force,
                                   chosenHugo, chosenGit))
        /\ UNCHANGED <<path, system, prev>>

InitSite ==
    /\ \E present \in SUBSET SiteEntries, emptyS \in BOOLEAN :
          /\ fsDirs = {<< >>, W}
                      \cup {q \in present : Basename(q) = ".git"}
                      \cup UNION {Prefixes(SubSeq(q, 1, 2)) : q \in present}
                      \cup (IF emptyS THEN {S} ELSE {})
          /\ fsFiles = [q \in {r \in present : Basename(r) # ".git"} |-> <<<<"text">>>>]
    /\ cwd \in {<< >>, W}
    /\ path \in {{"hugo", "git"}, {"hugo"}, {}}
    /\ system = "linux"
    /\ procs = NoProcs
    /\ active = {}
    /\ last = Idle
    /\ prev = Brief(Idle)
    /\ loop = NoLoop

NextSite == CreateSite \/ MainCreateSite

SpecSite == InitSite /\ [][NextSite]_vars

\* the directory a create_site call was aimed at, as the call found it
TargetOf(r) == Resolve(r.pre.cwd, r.args.target)

\* it held an entry other than a lone .git
TargetOccupied(r) ==
    LET contents == Children(r.pre.dirs, r.pre.files, TargetOf(r))
    IN  /\ TargetOf(r) \in r.pre.dirs
        /\ contents # {}
        /\ ~(Cardinality(contents) = 1 /\ \A q \in contents : Basename(q) = ".git")

\* C2: create_site with force=false against a target directory holding an
\* entry other than a lone .git returns status=error, changes nothing in the
\* file system and runs no generator command, whatever the working directory.
C2_RefusesOccupiedTarget ==
    (last.op = "create_site" /\ ~last.args.force /\ TargetOccupied(last))
        => /\ last.env.status = "error"
           /\ last.post.dirs = last.pre.dirs /\ last.post.files = last.pre.files
           /\ Invoked(last) = {}

----------------------------------------------------------------------------
(* Content authoring: create_post, list_content *)

SiteMissing == "Site path does not exist"
FailedCreatePost == "Failed to create post: "
ContentDirMissing == "Content directory does not exist"

Stems == {"hello", "world", "notes"}
ContentExts == {".md", ".mdx", ".html"}

\* str.endswith of a file name with one of the given extensions
EndsWithAny(name, exts) == \E stem \in Stems, ext \in exts : name = stem \o ext

\* str.replace on one line: every occurrence of old, left to right
RECURSIVE ReplaceAll(_, _, _)
ReplaceAll(line, old, new) ==
    IF Len(line) < Len(old) THEN line
    ELSE IF SubSeq(line, 1, Len(old)) = old
    THEN new \o ReplaceAll(SubSeq(line, Len(old) + 1, Len(line)), old, new)
    ELSE <<line[1]>> \o ReplaceAll(Tail(line), old, new)

\* content.replace(old, new) on a file; old holds no line break
ReplaceInFile(content, old, new) ==
    [i \in 1..Len(content) |-> ReplaceAll(content[i], old, new)]

YamlDraft(b) == <<"draft", ": ", IF b THEN "true" ELSE "false">>

\* the patch of the draft marker (src/utils/content.py lines 39-43)
PatchDraft(content, draft) ==
    IF draft THEN ReplaceInFile(content, YamlDraft(FALSE), YamlDraft(TRUE))
    ELSE ReplaceInFile(content, YamlDraft(TRUE), YamlDraft(FALSE))

\* the front matter "hugo new" writes, from the site's archetype: YAML
\* (draft: true) in older sites, TOML (draft = true) in sites made by a
\* current "hugo new site"; an archetype may also set no draft key
Archetypes ==
    { <<<<"---">>, <<"draft", ": ", "true">>,  <<"---">>>>,
      <<<<"---">>, <<"draft", ": ", "false">>, <<"---">>>>,
      <<<<"+++">>, <<"draft", " = ", "true">>,  <<"+++">>>>,
      <<<<"+++">>, <<"draft", " = ", "false">>, <<"+++">>>>,
      <<<<"---">>, <<"title", ": ", "t">>, <<"---">>>> }

\* the exit of "hugo new <kind>/<name>": the generator refuses to replace a
\* content file that exists; otherwise it exits as the tool chose
HugoNewContent(files, f, chosen) == IF f \in DOMAIN files THEN "fail" ELSE chosen

\* src/utils/content.py create_post (src/main.py create_post is the same code)
create_post(c, dirs, files, pth, site_path, post_title, content_type, draft, date, chosen, archetype) ==
    IF ~IsDir(dirs, c, site_path)
    THEN Outcome(Envelope("error", SiteMissing, "site_path", NoData), "none", << >>, c, dirs, files)
    ELSE
    LET c1   == Resolve(c, site_path)                                \* os.chdir
        name == post_title \o ".md"
        argv == IF date # "" THEN <<"new", content_type, name, "--date", date>>
                ELSE <<"new", content_type, name>>
        post_path == Rel(<<"content", content_type, name>>)
        f    == Resolve(c1, post_path)
        out  == Launch(pth, "hugo", HugoNewContent(files, f, chosen))
        cmds == <<Cmd("hugo", argv, c1, out)>>
    IN
    IF out = "fail"
    THEN Outcome(Envelope("error", FailedCreatePost, ErrText("hugo", out), NoData),
                 "none", cmds, c1, dirs, files)
    ELSE IF out = "missing"
    THEN Outcome(Envelope("error", Unexpected, ErrText("hugo", out), NoData),
                 "none", cmds, c1, dirs, files)
    ELSE
    LET dirs1  == dirs \cup Prefixes(SubSeq(f, 1, Len(f) - 1))
        files1 == WriteFile(files, f, archetype)                     \* hugo new
        files2 == IF f \in DOMAIN files1                             \* os.path.exists
                  THEN WriteFile(files1, f, PatchDraft(files1[f], draft))
                  ELSE files1
    IN  Outcome(Envelope("success", "", "", [file |-> post_path.p, draft |-> draft]),
                "none", cmds, c1, dirs1, files2)

\* a set of paths as a list, in the order the directory walk yields them
RECURSIVE Listed(_)
Listed(ps) ==
    IF ps = {} THEN << >>
    ELSE LET q == CHOOSE r \in ps : TRUE IN <<q>> \o Listed(ps \ {q})

\* src/utils/content.py list_content (src/main.py list_content is the same code)
list_content(c, dirs, files, site_path, content_type) ==
    IF ~IsDir(dirs, c, site_path)
    THEN Outcome(Envelope("error", SiteMissing, "site_path", NoData), "none", << >>, c, dirs, files)
    ELSE
    LET c1 == Resolve(c, site_path)                                  \* os.chdir
        content_dir == IF content_type # "" THEN Rel(<<"content", content_type>>)
                       ELSE Rel(<<"content">>)
        top  == Resolve(c1, content_dir)
        base == Resolve(c1, Rel(<<"content">>))
    IN
    IF top \notin dirs
    THEN Outcome(Envelope("error", ContentDirMissing, "content_dir", NoData),
                 "none", << >>, c1, dirs, files)
    ELSE
    LET found == {q \in DOMAIN files : IsPrefix(top, q) /\ Len(q) > Len(top)
                                       /\ EndsWithAny(Basename(q), ContentExts)}
        \* os.path.relpath(<file>, "content")
        rel   == {SubSeq(q, Len(base) + 1, Len(q)) : q \in found}
    IN  Outcome(Envelope("success", "", "", [content |-> Listed(rel)]),
                "none", << >>, c1, dirs, files)

\* the draft marker a content file carries: the value of its draft key in
\* YAML or TOML front matter, "none" when it has no such key
DraftMarker(content) ==
    LET marks == {i \in 1..Len(content) :
                    /\ Len(content[i]) = 3
                    /\ content[i][1] = "draft"
                    /\ content[i][2] \in {": ", " = "}}
    IN  IF marks = {} THEN "none"
        ELSE content[CHOOSE i \in marks : \A j \in marks : i <= j][3]

(* The content specification *)

ContentSites == {Abs(S), Abs(<<"gone">>)}
Titles == {"hello"}
ContentTypes == {"posts"}
Dates == {"", "2024-01-01"}

CreatePost ==
    \E site \in ContentSites, title \in Titles, kind \in ContentTypes,
       draft \in BOOLEAN, date \in Dates, chosen \in ToolOutcomes,
       archetype \in Archetypes :
        /\ Commit("create_post", "utils",
                  [site_path |-> site, post_title |-> title, content_type |-> kind,
                   draft |-> draft, date |-> date],
                  create_post(cwd, fsDirs, fsFiles, path, site, title, kind, draft,
                              date, chosen, archetype))
        /\ UNCHANGED <<path, system>>

ListContent ==
    \E site \in ContentSites, kind \in ContentTypes \cup {""} :
        /\ Commit("list_content", "utils",
                  [site_path |-> site, content_type |-> kind],
                  list_content(cwd, fsDirs, fsFiles, site, kind))
        /\ UNCHANGED <<path, system>>

\* files the content tree may hold when the server starts
OldContent == {<<"w", "s", "content", "posts", "world.md">>,
               <<"w", "s", "content", "posts", "notes.txt">>}

InitContent ==
    /\ \E old \in SUBSET OldContent :
          /\ fsDirs = {<< >>, W, S, Append(S, "content")}
                      \cup {SubSeq(q, 1, 4) : q \in old}
          /\ fsFiles = [q \in {Append(S, "hugo.toml")} \cup old |->
                          <<<<"title = ", "'site'">>>>]
    /\ cwd \in {<< >>, W}
    /\ path \in SUBSET {"hugo"}
    /\ system = "linux"
    /\ procs = NoProcs
    /\ active = {}
    /\ last = Idle
    /\ prev = Brief(Idle)
    /\ loop = NoLoop

NextContent == CreatePost \/ ListContent

SpecContent == InitContent /\ [][NextContent]_vars

\* the file a create_post call names, where the call put it
PostFile(r) ==
    Resolve(Resolve(r.cwd0, r.args.site_path),
            Rel(<<"content", r.args.content_type, r.args.post_title \o ".md">>))

DraftText(b) == IF b THEN "true" ELSE "false"

\* list_content, called right after a create_post that succeeded, on its site
ListedAfterPost ==
    /\ prev.op = "create_post" /\ prev.env.status = "success"
    /\ last.op = "list_content" /\ last.env.status = "success"
    /\ Resolve(last.pre.cwd, last.args.site_path)
         = Resolve(prev.cwd0, prev.args.site_path)

\* C3: after create_post(site_path, t, draft=d) returns success, a following
\* list_content(site_path) includes a path ending in t.md, and the draft
\* marker stored in that file equals d, the draft field of the envelope.
C3_PostListedWithRequestedDraft ==
    ListedAfterPost =>
        /\ \E i \in 1..Len(last.env.data.content) :
              Basename(last.env.data.content[i]) = prev.args.post_title \o ".md"
        /\ PostFile(prev) \in DOMAIN fsFiles
        /\ DraftMarker(fsFiles[PostFile(prev)]) = DraftText(prev.args.draft)
        /\ prev.env.data.draft = prev.args.draft

\* a create_post that repeats the title of the create_post before it, which
\* succeeded with draft=true, and asks for draft=false
SecondPost ==
    /\ prev.op = "create_post" /\ prev.env.status = "success" /\ prev.args.draft
    /\ last.op = "create_post" /\ ~last.args.draft
    /\ PostFile(Brief(last)) = PostFile(prev)
    /\ last.args.content_type = prev.args.content_type
    /\ last.args.post_title = prev.args.post_title

\* the entries list_content would give for the site of call r, now
EntriesFor(r) ==
    list_content(cwd, fsDirs, fsFiles, Abs(Resolve(r.pre.cwd, r.args.site_path)), "")
        .env.data.content

\* C4: a second create_post with the same site, content type and title but
\* draft=false, after a first one with draft=true succeeded, flips the file's
\* draft marker to false and leaves exactly one entry for the title.
C4_SecondPostFlipsDraft ==
    SecondPost =>
        /\ PostFile(Brief(last)) \in DOMAIN fsFiles
        /\ DraftMarker(fsFiles[PostFile(Brief(last))]) = "false"
        /\ Cardinality({i \in 1..Len(EntriesFor(last)) :
              Basename(EntriesFor(last)[i]) = last.args.post_title \o ".md"}) = 1

----------------------------------------------------------------------------
(* Site lifecycle: start_preview, stop_preview, and the process table *)

MaxPid == 2
MaxOthers == 1
Pids == 1..MaxPid

ServerFailed == "Server failed to start: "
ServerStopped == "Server with PID stopped"
PidNotFound == "Process with PID not found"
FailedStop == "Failed to stop server: "
HugoNotInstalled == "Hugo is not installed or not in PATH"

Proc(state, child, mine) == [state |-> state, child |-> child, mine |-> mine]

WithProc(pr, pid, e) == [q \in DOMAIN pr \cup {pid} |-> IF q = pid THEN e ELSE pr[q]]

WithoutProc(pr, pid) == [q \in DOMAIN pr \ {pid} |-> pr[q]]

\* a running process ends: a child of the server stays in the table, as a
\* zombie, until the server waits for it; any other process leaves it
Ended(pr, pid) ==
    IF pr[pid].child THEN WithProc(pr, pid, Proc("zombie", TRUE, TRUE))
    ELSE WithoutProc(pr, pid)

\* the effect of os.kill(pid, SIGTERM) on a process the caller may signal
Signalled(pr, pid) == IF pr[pid].state = "running" THEN Ended(pr, pid) ELSE pr

\* an operation's outcome with the process table and _active it leaves
WithProcs(o, pr, act) == [procs |-> pr, active |-> act] @@ o

\* start_preview as it would be without its poll of the process: the launch
\* is reported as a success whether or not the server is still there
start_preview_unpolled(c, dirs, files, pth, pr, act, site_path, port, bind, build_drafts, open_browser, newpid, exited) ==
    IF ~IsDir(dirs, c, site_path)
    THEN WithProcs(Outcome(Envelope("error", SiteMissing, "site_path", NoData),
                           "none", << >>, c, dirs, files), pr, act)
    ELSE
    LET c1   == Resolve(c, site_path)
        argv == <<"server", "--port", port, "--bind", bind>>
        pr1  == Reaped(pr, act)
        act1 == StillActive(pr, act)
        out  == Launch(pth, "hugo", "ok")
        cmds == <<Cmd("hugo", argv, c1, out)>>
        ok   == Outcome(Envelope("success", "", "",
                                 [url |-> <<"http://", bind, ":", port>>, pid |-> newpid,
                                  options |-> [build_drafts |-> build_drafts]]),
                        "none", cmds, c1, dirs, files)
    IN
    IF out = "missing"
    THEN WithProcs(Outcome(Envelope("error", Unexpected, ErrText("hugo", out), NoData),
                           "none", cmds, c1, dirs, files), pr1, act1)
    ELSE IF exited
    THEN WithProcs(ok, WithProc(pr1, newpid, Proc("zombie", TRUE, TRUE)), act1 \cup {newpid})
    ELSE WithProcs(ok, WithProc(pr1, newpid, Proc("running", TRUE, TRUE)), act1 \cup {newpid})

\* src/utils/site.py start_preview (open_browser) and src/main.py
\* start_preview (not open_browser): the same code but for --openBrowser
start_preview(c, dirs, files, pth, pr, act, site_path, port, bind, build_drafts, open_browser, newpid, exited) ==
    IF ~IsDir(dirs, c, site_path)
    THEN WithProcs(Outcome(Envelope("error", SiteMissing, "site_path", NoData),
                           "none", << >>, c, dirs, files), pr, act)
    ELSE
    LET c1   == Resolve(c, site_path)                                \* os.chdir
        argv == <<"server", "--port", port, "--bind", bind>>
                \o (IF open_browser THEN <<"--openBrowser">> ELSE << >>)
                \o (IF build_drafts THEN <<"--buildDrafts">> ELSE << >>)
        pr1  == Reaped(pr, act)                                      \* Popen: _cleanup()
        act1 == StillActive(pr, act)
        out  == Launch(pth, "hugo", "ok")
        cmds == <<Cmd("hugo", argv, c1, out)>>
    IN
    IF out = "missing"
    THEN WithProcs(Outcome(Envelope("error", Unexpected, ErrText("hugo", out), NoData),
                           "none", cmds, c1, dirs, files), pr1, act1)
    ELSE IF exited
    THEN \* process.poll() found the exit status: the child is waited for
         WithProcs(Outcome(Envelope("error", ServerFailed, "stderr", NoData),
                           "none", cmds, c1, dirs, files), pr1, act1)
    ELSE \* still running: the Popen object is dropped into _active
         WithProcs(Outcome(Envelope("success", "", "",
                                    [url |-> <<"http://", bind, ":", port>>,
                                     pid |-> newpid,
                                     options |-> [build_drafts |-> build_drafts]]),
                           "none", cmds, c1, dirs, files),
                   WithProc(pr1, newpid, Proc("running", TRUE, TRUE)),
                   act1 \cup {newpid})

\* src/utils/site.py stop_preview (src/main.py stop_preview is the same code)
stop_preview(c, dirs, files, pr, act, pid) ==
    IF pid \notin DOMAIN pr
    THEN \* ProcessLookupError
         WithProcs(Outcome(Envelope("error", PidNotFound, ToString(pid), NoData),
                           "none", << >>, c, dirs, files), pr, act)
    ELSE IF ~pr[pid].mine
    THEN \* PermissionError
         WithProcs(Outcome(Envelope("error", FailedStop, "[Errno 1] Operation not permitted",
                                    NoData),
                           "none", << >>, c, dirs, files), pr, act)
    ELSE WithProcs(Outcome(Envelope("success", ServerStopped, ToString(pid), NoData),
                           "none", << >>, c, dirs, files),
                   Signalled(pr, pid), act)

\* src/main.py check_hugo_installation (src/utils/system.py has the same code)
check_hugo_installation(c, dirs, files, pth, chosen) ==
    LET out  == Launch(pth, "hugo", chosen)
        cmds == <<Cmd("hugo", <<"version">>, c, out)>>
    IN
    IF out = "ok"
    THEN Outcome(Envelope("success", "", "", [version |-> "stdout"]), "none", cmds, c, dirs, files)
    ELSE IF out = "fail"
    THEN Outcome(Envelope("error", HugoNotInstalled, ErrText("hugo", out), NoData),
                 "none", cmds, c, dirs, files)
    ELSE Outcome(Envelope("error", HugoNotInstalled, "", NoData), "none", cmds, c, dirs, files)

(* The preview specification *)

\* an outcome that carries its own process table becomes the state
CommitProcs(op, impl, args, o) ==
    /\ cwd' = o.cwd
    /\ fsDirs' = o.dirs
    /\ fsFiles' = o.files
    /\ procs' = o.procs
    /\ active' = o.active
    /\ prev' = Brief(last)
    /\ last' = Done(op, impl, args, o, Here, Snapshot(cwd', fsDirs', fsFiles', procs'))
    /\ UNCHANGED loop

PreviewSites == {Abs(S), Abs(<<"gone">>)}

\* the port and the address the server is asked to listen on
Endpoints == {[port |-> "1313", bind |-> "127.0.0.1"], [port |-> "8080", bind |-> "0.0.0.0"]}

\* an argument is enumerated only where the code reads it
StartPreview ==
    \E site \in PreviewSites, at \in Endpoints, build_drafts \in {FALSE},
       open_browser \in BOOLEAN, newpid \in Pids, exited \in BOOLEAN :
        /\ newpid \notin DOMAIN Reaped(procs, active)     \* the OS gives a free pid
        /\ ~IsDir(fsDirs, cwd, site) \/ "hugo" \notin path
             => at.port = "1313" /\ ~exited
        /\ CommitProcs("start_preview", IF open_browser THEN "utils" ELSE "main",
                       [site_path |-> site, port |-> at.port, bind |-> at.bind,
                        build_drafts |-> build_drafts],
                       start_preview(cwd, fsDirs, fsFiles, path, procs, active, site,
                                     at.port, at.bind, build_drafts, open_browser,
                                     newpid, exited))
        /\ UNCHANGED <<path, system>>

StopPreview ==
    \E pid \in Pids :
        /\ CommitProcs("stop_preview", "utils", [pid |-> pid],
                       stop_preview(cwd, fsDirs, fsFiles, procs, active, pid))
        /\ UNCHANGED <<path, system>>

CheckHugo ==
    \E chosen \in ToolOutcomes :
        /\ Commit("check_hugo_installation", "main", NoData,
                  check_hugo_installation(cwd, fsDirs, fsFiles, path, chosen))
        /\ UNCHANGED <<path, system>>

\* a running process ends by itself
ProcessExits ==
    \E pid \in DOMAIN procs :
        /\ procs[pid].state = "running"
        /\ procs' = Ended(procs, pid)
        /\ UNCHANGED <<cwd, fsDirs, fsFiles, path, system, active, last, prev, loop>>

\* a process that is not the server's starts
OtherStarts ==
    \E pid \in Pids \ DOMAIN procs, mine \in BOOLEAN :
        /\ Cardinality({q \in DOMAIN procs : ~procs[q].child}) < MaxOthers
        /\ procs' = WithProc(procs, pid, Proc("running", FALSE, mine))
        /\ UNCHANGED <<cwd, fsDirs, fsFiles, path, system, active, last, prev, loop>>

InitPreview ==
    /\ fsDirs = {<< >>, W, S, Append(S, "content")}
    /\ fsFiles = [q \in {Append(S, "hugo.toml")} |-> <<<<"title = ", "'site'">>>>]
    /\ cwd = << >>
    /\ path \in SUBSET {"hugo"}
    /\ system = "linux"
    /\ procs = NoProcs
    /\ active = {}
    /\ last = Idle
    /\ prev = Brief(Idle)
    /\ loop = NoLoop

NextPreview == StartPreview \/ StopPreview \/ CheckHugo \/ ProcessExits \/ OtherStarts

SpecPreview == InitPreview /\ [][NextPreview]_vars

\* the preview servers alone: no process but the server's own children
NextServers == StartPreview \/ StopPreview \/ ProcessExits

SpecServers == InitPreview /\ [][NextServers]_vars

\* the pid has a running process in the table pr
Live(pr, pid) == pid \in DOMAIN pr /\ pr[pid].state = "running"

\* C5: stop_preview(pid) for a pid that corresponds to no live process returns
\* status=error with a message that names the pid, and terminates no process.
C5_StopOfDeadPidIsError ==
    (last.op = "stop_preview" /\ ~Live(last.pre.procs, last.args.pid))
        => /\ last.env.status = "error"
           /\ last.env.detail = ToString(last.args.pid)
           /\ last.post.procs = last.pre.procs

\* stop_preview(p) called right after the start_preview that returned p
StopAfterStart ==
    /\ prev.op = "start_preview" /\ prev.env.status = "success"
    /\ last.op = "stop_preview" /\ last.args.pid = prev.env.data.pid

\* stop_preview(p) called again after a stop_preview(p) that stopped a
\* preview server this server had started
StopAfterStop ==
    /\ prev.op = "stop_preview" /\ prev.env.status = "success"
    /\ prev.hit.state = "running" /\ prev.hit.child
    /\ last.op = "stop_preview" /\ last.args.pid = prev.args.pid

\* C6: stop_preview(p), for the p a successful start_preview returned, returns
\* status=success and p is no longer running afterward; a later
\* stop_preview(p) reports it as not found.
C6_StopOfStartedServer ==
    /\ StopAfterStart => /\ last.env.status = "success"
                         /\ ~Live(last.post.procs, last.args.pid)
    /\ StopAfterStop => /\ last.env.status = "error"
                        /\ last.env.msg = PidNotFound

\* the processes that run when call r returns and did not run when it began
Started(r) ==
    {q \in DOMAIN r.post.procs :
        /\ r.post.procs[q].state = "running"
        /\ ~(q \in DOMAIN r.pre.procs /\ r.pre.procs[q].state = "running")}

\* start_preview found the site and the hugo executable
ServerLaunched(r) ==
    r.op = "start_preview" /\ Len(r.cmds) = 1 /\ r.cmds[1].out = "ok"

\* C14: start_preview launches exactly one server process and polls it once
\* after the grace period: if the process has exited it returns status=error
\* with the process's stderr in the message and no pid, and no process is
\* left; if it still runs it returns status=success with that process's pid
\* and the url http://<bind>:<port>, and the process runs on after the return.
C14_StartPreviewPollsOnce ==
    last.op = "start_preview" =>
        /\ Len(last.cmds) <= 1
        /\ IsDir(last.pre.dirs, last.pre.cwd, last.args.site_path)
              => Len(last.cmds) = 1 /\ last.cmds[1].argv[1] = "server"
        /\ ServerLaunched(last) =>
              /\ last.env.status \in {"success", "error"}
              /\ last.env.status = "error" =>
                    /\ last.env.msg = ServerFailed /\ last.env.detail = "stderr"
                    /\ "pid" \notin DOMAIN last.env.data
                    /\ Started(last) = {}
              /\ last.env.status = "success" =>
                    /\ Started(last) = {last.env.data.pid}
                    /\ last.post.procs[last.env.data.pid].child
                    /\ last.env.data.url
                         = <<"http://", last.args.bind, ":", last.args.port>>

\* a start_preview whose server had exited at the poll, then one whose
\* server was still running
C14_FailedThenRunning ==
    /\ prev.op = "start_preview" /\ prev.env.status = "error"
    /\ prev.env.msg = ServerFailed
    /\ ServerLaunched(last) /\ last.env.status = "success"
    /\ last.args.port = "8080"
    /\ Live(procs, last.env.data.pid)

\* the process table with its live processes alone, none of them a child of
\* the server: what the operating system has of a server that started
\* nothing
LiveOnly(pr) ==
    [q \in {x \in DOMAIN pr : pr[x].state = "running"} |-> Proc("running", FALSE, pr[q].mine)]

LivePids(pr) == {q \in DOMAIN pr : pr[q].state = "running"}

\* C22: the result and the effect of stop_preview(pid) are those it has on
\* the live processes alone, whether or not a start_preview of this server
\* returned the pid, and the envelope of start_preview is the one it returns
\* when no earlier call has started anything.
C22_NoRegistryOfServers ==
    /\ last.op = "stop_preview" =>
          LET alone == stop_preview(last.pre.cwd, last.pre.dirs, last.pre.files,
                                    LiveOnly(last.pre.procs), {}, last.args.pid)
          IN  /\ last.env = alone.env
              /\ LivePids(last.post.procs) = LivePids(alone.procs)
    /\ last.op = "start_preview" /\ last.env.status = "error" =>
          last.env \in {start_preview(last.pre.cwd, last.pre.dirs, last.pre.files, path,
                                      LiveOnly(last.pre.procs), {}, last.args.site_path,
                                      last.args.port, last.args.bind, last.args.build_drafts,
                                      last.impl = "utils", newpid, TRUE).env :
                           newpid \in Pids}

----------------------------------------------------------------------------
(* Theme management: install_theme, update_theme *)

FailedInstallTheme == "Failed to install theme: "
FailedUpdateTheme == "Failed to update theme: "

Blanks == {" ", "  ", "    "}

\* str.strip of a line: its leading and trailing blank tokens dropped
RECURSIVE LStrip(_)
LStrip(line) ==
    IF line # << >> /\ line[1] \in Blanks THEN LStrip(Tail(line)) ELSE line

RECURSIVE RStrip(_)
RStrip(line) ==
    IF line # << >> /\ line[Len(line)] \in Blanks
    THEN RStrip(SubSeq(line, 1, Len(line) - 1)) ELSE line

Strip(line) == RStrip(LStrip(line))

\* line.strip().startswith("theme = ")
StartsWithTheme(line) == Strip(line) # << >> /\ Strip(line)[1] = "theme = "

\* token in content (a substring test; the text is cut into tokens so that
\* the substrings looked for are tokens)
InContent(content, token) ==
    \E i \in 1..Len(content) : \E j \in 1..Len(content[i]) : content[i][j] = token

Quoted(text) == "\"" \o text \o "\""

ThemeLine(theme_name) == <<"theme = ", Quoted(theme_name)>>

\* the lines of new_lines, written joined by "\n": "\n[module]" is two lines
ModuleSection(theme_url) ==
    << << >>, <<"[module]">>, <<"  ", "[[module.imports]]">>,
       <<"    ", "path = ", Quoted(theme_url)>> >>

KeepLine(line) == ~StartsWithTheme(line)

\* the TOML surgery of the module strategy (src/utils/theme.py lines 103-120)
TomlUseModule(content, theme_url) ==
    LET new_lines == SelectSeq(content, KeepLine)
    IN  IF ~InContent(content, "[module]") THEN new_lines \o ModuleSection(theme_url)
        ELSE new_lines

\* the TOML surgery of the submodule strategy (src/utils/theme.py lines 169-188)
TomlUseTheme(content, theme_name) ==
    IF InContent(content, "theme = ")
    THEN [i \in 1..Len(content) |->
            IF StartsWithTheme(content[i]) THEN ThemeLine(theme_name) ELSE content[i]]
    ELSE content \o <<ThemeLine(theme_name)>>

\* A YAML document as yaml.safe_load gives it: the top-level keys in order,
\* each a scalar or the module mapping with its imports
YScalar(key, text) ==
    [key |-> key, kind |-> "scalar", text |-> text, hasImports |-> FALSE, imports |-> << >>]

YModule(hasImports, imports) ==
    [key |-> "module", kind |-> "module", text |-> "", hasImports |-> hasImports,
     imports |-> imports]

YItem(isDict, text) == [dict |-> isDict, path |-> text]

HasKey(doc, key) == \E i \in 1..Len(doc) : doc[i].key = key

KeyAt(doc, key) == CHOOSE i \in 1..Len(doc) : doc[i].key = key

\* config[key] = entry: a key keeps its place, a new key goes last
Put(doc, entry) ==
    IF HasKey(doc, entry.key)
    THEN [i \in 1..Len(doc) |-> IF doc[i].key = entry.key THEN entry ELSE doc[i]]
    ELSE Append(doc, entry)

IsOther(e) == e.key # "theme"

\* del config["theme"]
DelTheme(doc) == SelectSeq(doc, IsOther)

\* one line of a YAML file read into the document
YamlLine(doc, line) ==
    IF line = << >> \/ line[1] = "# " THEN doc
    ELSE IF line = <<"module", ":">> THEN Put(doc, YModule(FALSE, << >>))
    ELSE IF line = <<"module", ": ", "{}">> THEN Put(doc, YModule(FALSE, << >>))
    ELSE IF line[1] = "  " /\ doc # << >> /\ doc[Len(doc)].kind = "module"
    THEN LET m == doc[Len(doc)]
             m1 == IF line[2] = "imports" THEN YModule(TRUE, m.imports)
                   ELSE IF Len(line) = 5 /\ line[2] = "- " /\ line[3] = "path"
                   THEN YModule(TRUE, Append(m.imports, YItem(TRUE, line[5])))
                   ELSE IF Len(line) = 3 /\ line[2] = "- "
                   THEN YModule(TRUE, Append(m.imports, YItem(FALSE, line[3])))
                   ELSE m
         IN  [doc EXCEPT ![Len(doc)] = m1]
    ELSE IF Len(line) = 3 /\ line[2] = ": " THEN Put(doc, YScalar(line[1], line[3]))
    ELSE doc

\* yaml.safe_load(f) or {}
RECURSIVE YamlLoadFrom(_, _)
YamlLoadFrom(lines, doc) ==
    IF lines = << >> THEN doc ELSE YamlLoadFrom(Tail(lines), YamlLine(doc, lines[1]))

YamlLoad(content) == YamlLoadFrom(content, << >>)

YamlItemLine(item) ==
    IF item.dict THEN <<"  ", "- ", "path", ": ", item.path>> ELSE <<"  ", "- ", item.path>>

YamlEntryLines(e) ==
    IF e.kind = "scalar" THEN <<<<e.key, ": ", e.text>>>>
    ELSE IF ~e.hasImports THEN <<<<"module", ": ", "{}">>>>
    ELSE IF e.imports = << >> THEN <<<<"module", ":">>, <<"  ", "imports", ": ", "[]">>>>
    ELSE <<<<"module", ":">>, <<"  ", "imports", ":">>>>
         \o [i \in 1..Len(e.imports) |-> YamlItemLine(e.imports[i])]

RECURSIVE YamlLines(_)
YamlLines(doc) ==
    IF doc = << >> THEN << >> ELSE YamlEntryLines(doc[1]) \o YamlLines(Tail(doc))

\* yaml.dump(config, f, default_flow_style=False, sort_keys=False): the text
\* ends with a line end, so that its last line is empty
YamlDump(doc) == YamlLines(doc) \o << << >> >>

\* the YAML rewrite of the module strategy (src/utils/theme.py lines 122-149)
YamlUseModule(content, theme_url) ==
    LET config == YamlLoad(content)
        c1 == IF HasKey(config, "theme") THEN DelTheme(config) ELSE config
        c2 == IF ~HasKey(c1, "module") THEN Put(c1, YModule(FALSE, << >>)) ELSE c1
        m  == c2[KeyAt(c2, "module")]
        m1 == IF ~m.hasImports THEN YModule(TRUE, << >>) ELSE m
        theme_in_imports ==
            \E i \in 1..Len(m1.imports) : m1.imports[i].dict /\ m1.imports[i].path = theme_url
        m2 == IF ~theme_in_imports
              THEN YModule(TRUE, Append(m1.imports, YItem(TRUE, theme_url))) ELSE m1
    IN  YamlDump(Put(c2, m2))

\* the YAML rewrite of the submodule strategy (src/utils/theme.py lines 190-199)
YamlUseTheme(content, theme_name) ==
    YamlDump(Put(YamlLoad(content), YScalar("theme", theme_name)))

\* config_files, in the order the code visits them
ConfigFiles == <<"config.toml", "hugo.toml", "config.yaml", "hugo.yaml">>
TomlNames == {"config.toml", "hugo.toml"}

\* the loop over config_files: every one that exists is rewritten
RECURSIVE RewriteConfigs(_, _, _, _, _, _)
RewriteConfigs(files, site, names, use_go_module, theme_name, theme_url) ==
    IF names = << >> THEN files
    ELSE
    LET f == Append(site, names[1])
        files1 ==
            IF f \notin DOMAIN files THEN files
            ELSE IF names[1] \in TomlNames
            THEN WriteFile(files, f, IF use_go_module THEN TomlUseModule(files[f], theme_url)
                                     ELSE TomlUseTheme(files[f], theme_name))
            ELSE WriteFile(files, f, IF use_go_module THEN YamlUseModule(files[f], theme_url)
                                     ELSE YamlUseTheme(files[f], theme_name))
    IN  RewriteConfigs(files1, site, Tail(names), use_go_module, theme_name, theme_url)

\* the exit of "git submodule add <url> <path>": git refuses a path that is
\* there already; otherwise it exits as the tool chose
GitSubmoduleAdd(dirs, t, chosen) ==
    IF t \in dirs \/ SubSeq(t, 1, Len(t) - 1) \notin dirs THEN "fail" ELSE chosen

\* the envelope of the first command of cmds that did not exit 0
CommandError(cmds, failed) ==
    LET bad == CHOOSE i \in 1..Len(cmds) : cmds[i].out # "ok" /\ \A j \in 1..(i - 1) : cmds[j].out = "ok"
    IN  IF cmds[bad].out = "fail"
        THEN Envelope("error", failed, ErrText(cmds[bad].exe, "fail"), NoData)
        ELSE Envelope("error", Unexpected, ErrText(cmds[bad].exe, "missing"), NoData)

AllOk(cmds) == \A i \in 1..Len(cmds) : cmds[i].out = "ok"

\* src/utils/theme.py install_theme (src/main.py install_theme is the same code)
install_theme(c, dirs, files, pth, site_path, theme_name, theme_url, use_go_module, chosenInit, chosenGet) ==
    IF ~IsDir(dirs, c, site_path)
    THEN Outcome(Envelope("error", SiteMissing, "site_path", NoData), "none", << >>, c, dirs, files)
    ELSE
    LET c1 == Resolve(c, site_path)                                  \* os.chdir
    IN
    IF use_go_module
    THEN
        LET gomod == Append(c1, "go.mod")
            init  == IF gomod \in DOMAIN files THEN << >>
                     ELSE <<Cmd("hugo", <<"mod", "init", "github.com/", Basename(c1)>>, c1,
                                Launch(pth, "hugo", chosenInit))>>
            files1 == IF init # << >> /\ AllOk(init)
                      THEN WriteFile(files, gomod, <<<<"module">>>>) ELSE files
            get   == IF AllOk(init)
                     THEN <<Cmd("hugo", <<"mod", "get", theme_url>>, c1,
                                Launch(pth, "hugo", chosenGet))>>
                     ELSE << >>
            cmds  == init \o get
        IN
        IF ~AllOk(cmds)
        THEN Outcome(CommandError(cmds, FailedInstallTheme), "none", cmds, c1, dirs, files1)
        ELSE Outcome(Envelope("success", "", "", [theme |-> theme_name, method |-> "hugo_modules"]),
                     "none", cmds, c1, dirs,
                     RewriteConfigs(files1, c1, ConfigFiles, TRUE, theme_name, theme_url))
    ELSE
        LET themes_dir == Append(c1, "themes")
            t     == Append(themes_dir, theme_name)
        IN
        LET dirs1 == IF themes_dir \in dirs \/ themes_dir \in DOMAIN files THEN dirs
                     ELSE dirs \cup {themes_dir}                     \* themes_dir.mkdir()
            cmds  == <<Cmd("git", <<"submodule", "add", theme_url, "themes/", theme_name>>, c1,
                           Launch(pth, "git", GitSubmoduleAdd(dirs1, t, chosenGet)))>>
        IN
        IF ~AllOk(cmds)
        THEN Outcome(CommandError(cmds, FailedInstallTheme), "none", cmds, c1, dirs1, files)
        ELSE Outcome(Envelope("success", "", "", [theme |-> theme_name, method |-> "git_submodule"]),
                     "none", cmds, c1, dirs1 \cup {t},
                     RewriteConfigs(files, c1, ConfigFiles, FALSE, theme_name, theme_url))

\* src/utils/theme.py update_theme (src/main.py update_theme is the same code)
update_theme(c, dirs, files, pth, site_path, theme_name, use_modules, chosen) ==
    IF ~IsDir(dirs, c, site_path)
    THEN Outcome(Envelope("error", SiteMissing, "site_path", NoData), "none", << >>, c, dirs, files)
    ELSE
    LET c1   == Resolve(c, site_path)                                \* os.chdir
        cmds == IF use_modules
                THEN <<Cmd("hugo", <<"mod", "get", "-u">>, c1, Launch(pth, "hugo", chosen))>>
                ELSE <<Cmd("git", <<"submodule", "update", "--remote", "themes/", theme_name>>,
                           c1, Launch(pth, "git", chosen))>>
    IN
    IF ~AllOk(cmds)
    THEN Outcome(CommandError(cmds, FailedUpdateTheme), "none", cmds, c1, dirs, files)
    ELSE Outcome(Envelope("success", "", "",
                          [theme |-> theme_name,
                           method |-> IF use_modules THEN "hugo_modules" ELSE "git_submodule"]),
                 "none", cmds, c1, dirs, files)

\* The theme operations on one site whose configuration the server finds
\* in TOML, in YAML, or in both

ThemeSites == {Abs(S), Abs(<<"gone">>)}
Themes == {[name |-> "a", url |-> "u/a"], [name |-> "b", url |-> "u/b"]}

TomlConfigs1 == << <<"title = ", Quoted("site")>> >>
YamlConfigs1 == << <<"title", ": ", "site">>, << >> >>

TomlConfigs ==
    { TomlConfigs1,
      << <<"title = ", Quoted("site")>>, <<"theme = ", Quoted("old")>>, << >> >>,
      << <<"# ", "theme = ", Quoted("old")>>, <<"title = ", Quoted("site")>> >> }

YamlConfigs ==
    { YamlConfigs1,
      << <<"theme", ": ", "old">>, <<"title", ": ", "site">>, << >> >> }

\* an argument or a tool's exit is enumerated only where the code reads it
InstallTheme ==
    \E site \in ThemeSites, t \in Themes, use_go_module \in BOOLEAN,
       chosenInit \in ToolOutcomes, chosenGet \in ToolOutcomes :
        /\ ~IsDir(fsDirs, cwd, site) => t.name = "a" /\ use_go_module /\ chosenGet = "ok"
        /\ (~IsDir(fsDirs, cwd, site) \/ ~use_go_module
             \/ Append(Resolve(cwd, site), "go.mod") \in DOMAIN fsFiles
             \/ "hugo" \notin path) => chosenInit = "ok"
        /\ (IF use_go_module THEN "hugo" ELSE "git") \notin path => chosenGet = "ok"
        /\ Commit("install_theme", "utils",
                  [site_path |-> site, theme_name |-> t.name, theme_url |-> t.url,
                   use_go_module |-> use_go_module],
                  install_theme(cwd, fsDirs, fsFiles, path, site, t.name, t.url,
                                use_go_module, chosenInit, chosenGet))
        /\ UNCHANGED <<path, system>>

UpdateTheme ==
    \E site \in ThemeSites, t \in Themes, use_modules \in BOOLEAN, chosen \in ToolOutcomes :
        /\ ~IsDir(fsDirs, cwd, site) => t.name = "a" /\ use_modules /\ chosen = "ok"
        /\ (IF use_modules THEN "hugo" ELSE "git") \notin path => chosen = "ok"
        /\ use_modules => t.name = "a"
        /\ Commit("update_theme", "utils",
                  [site_path |-> site, theme_name |-> t.name, use_modules |-> use_modules],
                  update_theme(cwd, fsDirs, fsFiles, path, site, t.name, use_modules, chosen))
        /\ UNCHANGED <<path, system>>

InitTheme ==
    /\ fsDirs = {<< >>, W, S}
    /\ \E toml \in SUBSET TomlConfigs, yaml \in SUBSET YamlConfigs :
          /\ Cardinality(toml) + Cardinality(yaml) = 1
             \/ toml \cup yaml = {TomlConfigs1, YamlConfigs1}
          /\ fsFiles = [q \in {Append(S, "hugo.toml") : x \in toml}
                              \cup {Append(S, "config.yaml") : x \in yaml} |->
                          IF q = Append(S, "hugo.toml") THEN CHOOSE x \in toml : TRUE
                          ELSE CHOOSE x \in yaml : TRUE]
    /\ cwd = << >>
    /\ path \in {{"hugo", "git"}, {}}
    /\ system = "linux"
    /\ procs = NoProcs
    /\ active = {}
    /\ last = Idle
    /\ prev = Brief(Idle)
    /\ loop = NoLoop

NextTheme == InstallTheme \/ UpdateTheme

SpecTheme == InitTheme /\ [][NextTheme]_vars

\* the table a line of a TOML file belongs to: the nearest header above it
RECURSIVE TableOf(_, _)
TableOf(content, i) ==
    IF i = 0 THEN "" 
    ELSE IF Strip(content[i]) # << >>
            /\ Strip(content[i])[1] \in {"[module]", "[[module.imports]]"}
    THEN Strip(content[i])[1]
    ELSE TableOf(content, i - 1)

\* the import entries for theme_url that a configuration file holds
TomlImports(content, theme_url) ==
    {i \in 1..Len(content) :
        /\ Strip(content[i]) = <<"path = ", Quoted(theme_url)>>
        /\ TableOf(content, i) = "[[module.imports]]"}

YamlImports(content, theme_url) ==
    LET doc == YamlLoad(content)
    IN  IF ~HasKey(doc, "module") THEN {}
        ELSE {i \in 1..Len(doc[KeyAt(doc, "module")].imports) :
                doc[KeyAt(doc, "module")].imports[i].path = theme_url}

ImportsIn(files, f, theme_url) ==
    IF f[Len(f)] \in TomlNames THEN TomlImports(files[f], theme_url)
    ELSE YamlImports(files[f], theme_url)

\* the configuration files of the site a call named
ConfigsOf(r, files) ==
    {f \in DOMAIN files :
        \E i \in 1..Len(ConfigFiles) :
            f = Append(Resolve(r.cwd0, r.args.site_path), ConfigFiles[i])}

\* two install_theme calls in a row, both successful, with the same
\* arguments and the module strategy
InstalledTwice ==
    /\ prev.op = "install_theme" /\ last.op = "install_theme"
    /\ prev.args = last.args /\ last.args.use_go_module
    /\ prev.env.status = "success" /\ last.env.status = "success"

\* C7: install_theme called twice with the same site_path, theme_name and
\* theme_url using the module strategy leaves exactly one import entry for
\* theme_url in every configuration file of the project, TOML or YAML.
C7_OneImportAfterTwoInstalls ==
    InstalledTwice =>
        \A f \in ConfigsOf(prev, fsFiles) :
            Cardinality(ImportsIn(fsFiles, f, last.args.theme_url)) = 1

\* the theme lines of a TOML file, and its module imports of any theme
TomlThemeLines(content) == {i \in 1..Len(content) : StartsWithTheme(content[i])}

TomlAnyImports(content) ==
    {i \in 1..Len(content) :
        /\ Strip(content[i]) # << >> /\ Strip(content[i])[1] = "path = "
        /\ TableOf(content, i) = "[[module.imports]]"}

\* the number of ways in which a configuration file declares a theme: each
\* theme line or theme key is one, the module imports together are one
Declarations(files, f) ==
    IF f[Len(f)] \in TomlNames
    THEN Cardinality(TomlThemeLines(files[f]))
           + (IF TomlAnyImports(files[f]) # {} THEN 1 ELSE 0)
    ELSE LET doc == YamlLoad(files[f])
         IN  (IF HasKey(doc, "theme") THEN 1 ELSE 0)
               + (IF HasKey(doc, "module") /\ doc[KeyAt(doc, "module")].imports # << >>
                  THEN 1 ELSE 0)

\* C17: after a successful install_theme, with either strategy and whatever
\* was installed before, no configuration file of the site holds two theme
\* declarations at once: two theme lines, or a theme key together with a
\* module import left by the other strategy.
C17_OneThemeDeclaration ==
    last.op = "install_theme" /\ last.env.status = "success" =>
        \A f \in ConfigsOf(Brief(last), fsFiles) : Declarations(fsFiles, f) <= 1

\* the TOML configuration files of the site the last call named
TomlConfigsOfLast == {f \in ConfigsOf(Brief(last), fsFiles) : f[Len(f)] \in TomlNames}

\* C25: after install_theme with the module strategy has returned
\* status=success, every TOML configuration file of the site holds a module
\* import entry whose path is theme_url, whatever the file held before.
C25_ModuleImportWritten ==
    last.op = "install_theme" /\ last.args.use_go_module /\ last.env.status = "success" =>
        \A f \in TomlConfigsOfLast : TomlImports(fsFiles[f], last.args.theme_url) # {}

\* C26: after install_theme with the submodule strategy has returned
\* status=success, every TOML configuration file of the site holds exactly
\* one theme line, that line is theme = "<theme_name>", and it stands above
\* every table header, whatever the file held before.
C26_OneTopLevelThemeLine ==
    last.op = "install_theme" /\ ~last.args.use_go_module /\ last.env.status = "success" =>
        \A f \in TomlConfigsOfLast :
            /\ Cardinality(TomlThemeLines(fsFiles[f])) = 1
            /\ \A i \in TomlThemeLines(fsFiles[f]) :
                  /\ Strip(fsFiles[f][i]) = ThemeLine(last.args.theme_name)
                  /\ TableOf(fsFiles[f], i) = ""

----------------------------------------------------------------------------
(* Build and deployment: build_site, deploy_site and the platform handlers *)

BuildFailed == "Build failed: "
DeploymentFailed == "Deployment failed: "
UnsupportedPlatform == "Unsupported platform: "
GitHubPagesFailed == "GitHub Pages deployment failed: "
NetlifyFailed == "Netlify deployment failed: "
VercelFailed == "Vercel deployment failed: "
CustomFailed == "Custom deployment failed: "
UrlNotFound == "URL not found in output"

\* build_site as it would be if its CalledProcessError clause returned the
\* status alone
build_site_bare(c, dirs, files, pth, site_path, destination, clean_destination, minify, chosen) ==
    IF ~IsDir(dirs, c, site_path)
    THEN Outcome(Envelope("error", SiteMissing, "site_path", NoData), "none", << >>, c, dirs, files)
    ELSE
    LET c1   == Resolve(c, site_path)
        dest == Append(c1, destination)
        out  == Launch(pth, "hugo", chosen)
        cmds == <<Cmd("hugo", <<"--destination", destination>>, c1, out)>>
    IN
    IF out = "ok"
    THEN Outcome(Envelope("success", "", "", [destination |-> dest, output |-> "stdout"]),
                 "none", cmds, c1, dirs \cup {dest},
                 WriteFile(files, Append(dest, "index.html"), <<<<"html">>>>))
    ELSE IF out = "fail"
    THEN Outcome(Envelope("error", "", "", NoData), "none", cmds, c1, dirs, files)
    ELSE Outcome(Envelope("error", Unexpected, ErrText("hugo", out), NoData),
                 "none", cmds, c1, dirs, files)

\* build_site as it would be without its os.path.isdir check: os.chdir of a
\* path that is no directory raises, and the except Exception clause answers
build_site_unvalidated(c, dirs, files, pth, site_path, destination, clean_destination, minify, chosen) ==
    IF ~IsDir(dirs, c, site_path)
    THEN Outcome(Envelope("error", Unexpected, "[Errno 2] No such file or directory", NoData),
                 "none", << >>, c, dirs, files)
    ELSE build_site_bare(c, dirs, files, pth, site_path, destination, clean_destination,
                         minify, chosen)

\* src/main.py build_site (src/utils/site.py build_site is the same code)
build_site(c, dirs, files, pth, site_path, destination, clean_destination, minify, chosen) ==
    IF ~IsDir(dirs, c, site_path)
    THEN Outcome(Envelope("error", SiteMissing, "site_path", NoData), "none", << >>, c, dirs, files)
    ELSE
    LET c1   == Resolve(c, site_path)                                \* os.chdir
        dest == Append(c1, destination)
        argv == <<"--destination", destination>>
                \o (IF clean_destination THEN <<"--cleanDestinationDir">> ELSE << >>)
                \o (IF minify THEN <<"--minify">> ELSE << >>)
        out  == Launch(pth, "hugo", chosen)
        cmds == <<Cmd("hugo", argv, c1, out)>>
    IN
    IF out = "ok"
    THEN Outcome(Envelope("success", "", "", [destination |-> dest, output |-> "stdout"]),
                 "none", cmds, c1, dirs \cup {dest},
                 WriteFile(files, Append(dest, "index.html"), <<<<"html">>>>))
    ELSE IF out = "fail"
    THEN Outcome(Envelope("error", BuildFailed, "stderr", NoData), "none", cmds, c1, dirs, files)
    ELSE Outcome(Envelope("error", Unexpected, ErrText("hugo", out), NoData),
                 "none", cmds, c1, dirs, files)

\* One subprocess.run(..., check=True) of a handler.  A step of kind "try"
\* stands in a try block of its own whose except clause catches the
\* outcomes in catches; the step of kind "else" after it is that except
\* clause's command.  installs names the executable the command puts on the
\* search path when it exits 0.
Step(exe, argv) ==
    [exe |-> exe, argv |-> argv, kind |-> "run", catches |-> {}, installs |-> ""]

Try(exe, argv, catches) ==
    [exe |-> exe, argv |-> argv, kind |-> "try", catches |-> catches, installs |-> ""]

Else(exe, argv, installs) ==
    [exe |-> exe, argv |-> argv, kind |-> "else", catches |-> {}, installs |-> installs]

\* Run as it would be if the commands were launched without check=True: a
\* command that does not exit 0 is followed by the next one all the same
RECURSIVE RunOn(_, _, _, _, _, _)
RunOn(pth, c, steps, failAt, probe, tripped) ==
    IF steps = << >> THEN << >>
    ELSE
    LET s    == steps[1]
        rest == Tail(steps)
        out  == Launch(pth, s.exe, IF s.kind = "try" THEN probe
                                   ELSE IF failAt = 1 THEN "fail" ELSE "ok")
        pth1 == IF out = "ok" /\ s.installs # "" THEN pth \cup {s.installs} ELSE pth
        cmd  == [Cmd(s.exe, s.argv, c, out) EXCEPT !.caught = out \in s.catches]
    IN
    IF s.kind = "else" /\ ~tripped THEN RunOn(pth, c, rest, failAt - 1, probe, FALSE)
    ELSE <<cmd>> \o RunOn(pth1, c, rest, failAt - 1, probe, out # "ok")

\* The commands a handler launches: its steps one after another, up to the
\* first whose exception is not caught.  The step numbered failAt exits
\* non-zero, a "try" step exits as probe says, the others exit 0.
RECURSIVE Run(_, _, _, _, _, _)
Run(pth, c, steps, failAt, probe, tripped) ==
    IF steps = << >> THEN << >>
    ELSE
    LET s    == steps[1]
        rest == Tail(steps)
        out  == Launch(pth, s.exe, IF s.kind = "try" THEN probe
                                   ELSE IF failAt = 1 THEN "fail" ELSE "ok")
        pth1 == IF out = "ok" /\ s.installs # "" THEN pth \cup {s.installs} ELSE pth
        cmd  == [Cmd(s.exe, s.argv, c, out) EXCEPT !.caught = out \in s.catches]
    IN
    IF s.kind = "else" /\ ~tripped THEN Run(pth, c, rest, failAt - 1, probe, FALSE)
    ELSE IF out = "ok" \/ out \in s.catches
    THEN <<cmd>> \o Run(pth1, c, rest, failAt - 1, probe, out # "ok")
    ELSE <<cmd>>

\* no exception left the handler's try block
Passed(cmds) == \A i \in 1..Len(cmds) : cmds[i].out = "ok" \/ cmds[i].caught

\* the executables the commands put on the search path
Installed(cmds) ==
    {cmds[i].argv[Len(cmds[i].argv)] : i \in {j \in 1..Len(cmds) :
        cmds[j].exe = "npm" /\ cmds[j].out = "ok"}}

\* the arguments of a command as the message shows them
RECURSIVE Spelled(_)
Spelled(argv) ==
    IF argv = << >> THEN ""
    ELSE " " \o argv[1] \o Spelled(Tail(argv))

\* str(e) of the CalledProcessError of a command: "Command '<the command
\* with its arguments>' returned non-zero exit status <n>."
CalledProcessErrorText(cmd) ==
    "Command '" \o cmd.exe \o Spelled(cmd.argv) \o "' returned non-zero exit status"

\* the except clauses of a handler: both give the handler's message; stderr
\* says whether the message ends with e.stderr or with str(e)
HandlerError(cmds, failed, stderr) ==
    LET bad == CHOOSE i \in 1..Len(cmds) : cmds[i].out # "ok" /\ ~cmds[i].caught
    IN  Envelope("error", failed,
                 IF cmds[bad].out = "fail" /\ stderr
                 THEN (IF cmds[bad].argv[1] = "install" THEN "None" ELSE "stderr")
                 ELSE IF cmds[bad].out = "fail" THEN CalledProcessErrorText(cmds[bad])
                 ELSE ErrText(cmds[bad].exe, cmds[bad].out),
                 NoData)

\* "git init" makes the repository in the directory it runs in
GitInit(dirs, cmds) ==
    dirs \cup {Append(cmds[i].dir, ".git") :
                 i \in {j \in 1..Len(cmds) : cmds[j].argv = <<"init">> /\ cmds[j].out = "ok"}}

\* _deploy_to_github_pages as it would be if it pushed before it staged and
\* committed
deploy_to_github_pages_push_first(c, dirs, files, pth, site_path, destination, branch, commit_message, api_key, failAt, probe) ==
    LET steps == <<Step("git", <<"push", "origin", branch, "--force">>),
                   Step("git", <<"add", destination>>),
                   Step("git", <<"commit", "-m", commit_message>>)>>
        cmds  == Run(pth, c, steps, failAt, probe, FALSE)
    IN
    IF Passed(cmds)
    THEN Outcome(Envelope("success", "", "",
                          [platform |-> "github-pages", branch |-> branch,
                           url |-> "https://" \o Basename(site_path.p) \o ".github.io"]),
                 "none", cmds, c, dirs, files)
    ELSE Outcome(HandlerError(cmds, GitHubPagesFailed, FALSE), "none", cmds, c, dirs, files)

\* The URL of the remote "origin", kept in the repository's configuration
\* as the tokens of its text; no tokens when the repository has no such
\* remote
OriginFile(c) == c \o <<".git", "config">>

OriginUrl(files, c) ==
    IF OriginFile(c) \in DOMAIN files THEN files[OriginFile(c)][1] ELSE << >>

\* the text of a URL
RECURSIVE UrlText(_)
UrlText(url) == IF url = << >> THEN "" ELSE url[1] \o UrlText(Tail(url))

\* remote_url.replace("https://", f"https://{api_key}@")
RECURSIVE WithToken(_, _)
WithToken(url, api_key) ==
    IF url = << >> THEN << >>
    ELSE (IF url[1] = "https://" THEN <<"https://", api_key, "@">> ELSE <<url[1]>>)
         \o WithToken(Tail(url), api_key)

\* "git remote set-url origin <url>" writes the URL into the configuration
SetUrl(files, c, cmds, url) ==
    IF \E i \in 1..Len(cmds) : /\ Len(cmds[i].argv) > 2 /\ cmds[i].argv[2] = "set-url"
                                /\ cmds[i].out = "ok"
    THEN WriteFile(files, OriginFile(c), <<url>>)
    ELSE files

\* src/main.py _deploy_to_github_pages.  "git config --get
\* remote.origin.url" prints the URL of origin, and exits 1 when the
\* repository has none.
deploy_to_github_pages(c, dirs, files, pth, site_path, destination, branch, commit_message, api_key, failAt, probe) ==
    LET remote_url == OriginUrl(files, c)
        with_token == WithToken(remote_url, api_key)
        before ==
            (IF ~Exists(dirs, files, c, Join(site_path, ".git"))
             THEN <<Step("git", <<"init">>)>> ELSE << >>)
            \o <<Step("git", <<"add", destination>>),
                 Step("git", <<"commit", "-m", commit_message>>),
                 Try("git", <<"checkout", "-b", branch>>, {"fail"}),
                 Else("git", <<"checkout", branch>>, "")>>
        steps ==
            before
            \o (IF api_key # ""
                THEN <<Step("git", <<"config", "--get", "remote.origin.url">>)>>
                     \o (IF remote_url # << >> /\ remote_url[1] = "https://"
                         THEN <<Step("git", <<"remote", "set-url", "origin",
                                              UrlText(with_token)>>)>>
                         ELSE << >>)
                ELSE << >>)
            \o <<Step("git", <<"push", "origin", branch, "--force">>)>>
        getAt == Len(before) + 1
        fails == IF api_key # "" /\ remote_url = << >> /\ (failAt = 0 \/ failAt > getAt)
                 THEN getAt ELSE failAt
        cmds  == Run(pth, c, steps, fails, probe, FALSE)
    IN
    IF Passed(cmds)
    THEN Outcome(Envelope("success", "", "",
                          [platform |-> "github-pages", branch |-> branch,
                           url |-> "https://" \o Basename(site_path.p) \o ".github.io"]),
                 "none", cmds, c, GitInit(dirs, cmds), SetUrl(files, c, cmds, with_token))
    ELSE Outcome(HandlerError(cmds, GitHubPagesFailed, FALSE), "none", cmds, c,
                 GitInit(dirs, cmds), SetUrl(files, c, cmds, with_token))

\* One word of a command's output, the output being its words with white
\* space between them: the word reads pre, then scheme, then rest.
Word(pre, scheme, rest) == [pre |-> pre, scheme |-> scheme, rest |-> rest]

\* re.search(r"https://[^\s]+", text) matches in this word: "https://" with
\* one character at least after it that is not white space
Matches(w) == w.scheme = "https://" /\ w.rest # ""

\* the extraction as it would be if it took the last match of the output
RECURSIVE deploy_url_last(_)
deploy_url_last(stdout) ==
    IF stdout = << >> THEN UrlNotFound
    ELSE IF Matches(stdout[Len(stdout)])
    THEN stdout[Len(stdout)].scheme \o stdout[Len(stdout)].rest
    ELSE deploy_url_last(SubSeq(stdout, 1, Len(stdout) - 1))

\* url_match.group(0) if url_match else "URL not found in output": the
\* match of the leftmost word that has one, from "https://" to the end of
\* the word
RECURSIVE deploy_url(_)
deploy_url(stdout) ==
    IF stdout = << >> THEN UrlNotFound
    ELSE IF Matches(stdout[1]) THEN stdout[1].scheme \o stdout[1].rest
    ELSE deploy_url(Tail(stdout))

\* src/main.py _deploy_to_netlify and _deploy_to_vercel, which differ in the
\* names only: cli is the platform's command, package what npm installs,
\* deploy the arguments of the deploy command
deploy_with_cli(c, dirs, files, pth, cli, package, deploy, failed, api_key, production, failAt, probe, stdout) ==
    LET steps ==
            <<Try(cli, <<"--version">>, {"fail", "missing"}),
              Else("npm", <<"install", "-g", package>>, cli)>>
            \o (IF api_key # "" THEN <<Step(cli, <<"login", "--token", api_key>>)>> ELSE << >>)
            \o <<Step(cli, deploy \o (IF production THEN <<"--prod">> ELSE << >>))>>
        cmds == Run(pth, c, steps, failAt, probe, FALSE)
    IN
    IF Passed(cmds)
    THEN Outcome(Envelope("success", "", "",
                          [platform |-> cli,
                           url |-> deploy_url(stdout)]),
                 "none", cmds, c, dirs, files)
    ELSE Outcome(HandlerError(cmds, failed, TRUE), "none", cmds, c, dirs, files)

deploy_to_netlify(c, dirs, files, pth, destination, api_key, production, failAt, probe, stdout) ==
    deploy_with_cli(c, dirs, files, pth, "netlify", "netlify-cli",
                    <<"deploy", "--dir", destination>>, NetlifyFailed,
                    api_key, production, failAt, probe, stdout)

deploy_to_vercel(c, dirs, files, pth, destination, api_key, production, failAt, probe, stdout) ==
    deploy_with_cli(c, dirs, files, pth, "vercel", "vercel",
                    <<"--cwd", destination>>, VercelFailed,
                    api_key, production, failAt, probe, stdout)

\* src/main.py _deploy_to_custom
deploy_to_custom(c, dirs, files, pth, site_path, destination, remote_url, branch, commit_message, failAt, probe) ==
    LET steps ==
            (IF ~Exists(dirs, files, c, Join(site_path, ".git"))
             THEN <<Step("git", <<"init">>)>> ELSE << >>)
            \o <<Step("git", <<"add", destination>>),
                 Step("git", <<"commit", "-m", commit_message>>),
                 Try("git", <<"remote", "add", "deploy", remote_url>>, {"fail"}),
                 Else("git", <<"remote", "set-url", "deploy", remote_url>>, ""),
                 Step("git", <<"push", "deploy", "HEAD:" \o branch, "--force">>)>>
        cmds == Run(pth, c, steps, failAt, probe, FALSE)
    IN
    IF Passed(cmds)
    THEN Outcome(Envelope("success", "", "",
                          [platform |-> "custom", remote_url |-> remote_url,
                           branch |-> branch]),
                 "none", cmds, c, GitInit(dirs, cmds), files)
    ELSE Outcome(HandlerError(cmds, CustomFailed, FALSE), "none", cmds, c,
                 GitInit(dirs, cmds), files)

\* str.lower, on the names the model uses
Lower(name) ==
    CASE name = "Netlify" -> "netlify"
      [] name = "CUSTOM" -> "custom"
      [] name = "Ananke" -> "ananke"
      [] OTHER -> name

\* deploy_site as it would be if it did not look at the status the build
\* returned
deploy_site_unchecked(c, dirs, files, pth, site_path, platform, destination, branch, commit_message, remote_url, api_key, production, chosenBuild, failAt, probe, stdout) ==
    IF ~IsDir(dirs, c, site_path)
    THEN Outcome(Envelope("error", SiteMissing, "site_path", NoData), "none", << >>, c, dirs, files)
    ELSE
    LET c1 == Resolve(c, site_path) 
        b  == build_site(c1, dirs, files, pth, site_path, destination, TRUE, FALSE, chosenBuild)
        h  == CASE Lower(platform) = "github-pages" ->
                     deploy_to_github_pages(b.cwd, b.dirs, b.files, pth, site_path, destination,
                                            branch, commit_message, api_key, failAt, probe)
                [] Lower(platform) = "netlify" ->
                     deploy_to_netlify(b.cwd, b.dirs, b.files, pth, destination, api_key,
                                       production, failAt, probe, stdout)
                [] Lower(platform) = "vercel" ->
                     deploy_to_vercel(b.cwd, b.dirs, b.files, pth, destination, api_key,
                                      production, failAt, probe, stdout)
                [] Lower(platform) = "custom" /\ remote_url # "" ->
                     deploy_to_custom(b.cwd, b.dirs, b.files, pth, site_path, destination,
                                      remote_url, branch, commit_message, failAt, probe)
                [] OTHER ->
                     Outcome(Envelope("error", UnsupportedPlatform, platform, NoData),
                             "none", << >>, b.cwd, b.dirs, b.files)
    IN
    Outcome(h.env, "none", b.cmds \o h.cmds, h.cwd, h.dirs, h.files)

\* src/main.py deploy_site
deploy_site(c, dirs, files, pth, site_path, platform, destination, branch, commit_message, remote_url, api_key, production, chosenBuild, failAt, probe, stdout) ==
    IF ~IsDir(dirs, c, site_path)
    THEN Outcome(Envelope("error", SiteMissing, "site_path", NoData), "none", << >>, c, dirs, files)
    ELSE
    LET c1 == Resolve(c, site_path)                                  \* os.chdir
        b  == build_site(c1, dirs, files, pth, site_path, destination, TRUE, FALSE, chosenBuild)
        h  == CASE Lower(platform) = "github-pages" ->
                     deploy_to_github_pages(b.cwd, b.dirs, b.files, pth, site_path, destination,
                                            branch, commit_message, api_key, failAt, probe)
                [] Lower(platform) = "netlify" ->
                     deploy_to_netlify(b.cwd, b.dirs, b.files, pth, destination, api_key,
                                       production, failAt, probe, stdout)
                [] Lower(platform) = "vercel" ->
                     deploy_to_vercel(b.cwd, b.dirs, b.files, pth, destination, api_key,
                                      production, failAt, probe, stdout)
                [] Lower(platform) = "custom" /\ remote_url # "" ->
                     deploy_to_custom(b.cwd, b.dirs, b.files, pth, site_path, destination,
                                      remote_url, branch, commit_message, failAt, probe)
                [] OTHER ->
                     Outcome(Envelope("error", UnsupportedPlatform, platform, NoData),
                             "none", << >>, b.cwd, b.dirs, b.files)
    IN
    IF b.env.status # "success" THEN b
    ELSE Outcome(h.env, "none", b.cmds \o h.cmds, h.cwd, h.dirs, h.files)

\* Building and deploying one site

MaxSteps == 8

DeploySites == {Abs(S), Rel(<<"s">>), Abs(<<"gone">>)}
Platforms == {"github-pages", "netlify", "vercel", "custom", "Netlify", "bogus"}
SupportedPlatforms == {"github-pages", "netlify", "vercel", "custom"}
ApiKeys == {"", "k"}
RemoteUrls == {"", "r"}

MaxWords == 2

\* the longest URL of origin, in tokens
MaxUrl == 6

\* the words a deploy command prints: an http URL, "https://" with nothing
\* after it, an https URL, an https URL inside other text
Words ==
    {Word("", "http://", "x"), Word("", "https://", ""),
     Word("", "https://", "a"), Word("url:", "https://", "b.")}

\* the outputs of a deploy command
Outputs == UNION {[1..n -> Words] : n \in 0..MaxWords}

\* an argument or a tool's exit is enumerated only where the code reads it;
\* the record of a deploy_site call keeps, with its arguments, what the
\* platform's deploy command printed and what the call met: the search path
\* and the exits of the tools
BuildSite ==
    \E site \in DeploySites, clean \in BOOLEAN, minify \in BOOLEAN, chosen \in ToolOutcomes :
        /\ ~IsDir(fsDirs, cwd, site) => clean /\ minify
        /\ ~IsDir(fsDirs, cwd, site) \/ "hugo" \notin path => chosen = "ok"
        /\ CommitLast("build_site", "main",
                      [site_path |-> site, destination |-> "public"],
                      build_site(cwd, fsDirs, fsFiles, path, site, "public", clean, minify,
                                 chosen))
        /\ UNCHANGED <<path, system, prev>>

Plain(r) ==
    /\ r.api_key = "" /\ ~r.production /\ r.failAt = 0 /\ r.probe = "ok"
    /\ r.stdout = << >>

\* the arguments of deploy_site and the exits of the tools it runs
DeployChoices ==
    {r \in [platform : Platforms, remote_url : RemoteUrls, api_key : ApiKeys,
             production : BOOLEAN, failAt : 0..MaxSteps, probe : ToolOutcomes] :
        /\ Lower(r.platform) # "custom" => r.remote_url = ""
        /\ Lower(r.platform) \in {"custom", "bogus"} => r.api_key = ""
        /\ Lower(r.platform) \notin {"netlify", "vercel"} => ~r.production
        /\ r.platform \notin SupportedPlatforms =>
              r.api_key = "" /\ ~r.production /\ r.failAt = 0 /\ r.probe = "ok"
        /\ r.production => r.failAt = 0 /\ r.probe = "ok"}

\* the choices with the output of the deploy command, which the code reads
\* when the commands of a netlify or vercel deployment have all exited 0
Printing(outs) ==
    {r @@ [stdout |-> << >>] : r \in DeployChoices}
    \cup {r @@ [stdout |-> out] :
            r \in {x \in DeployChoices : /\ x.platform \in {"netlify", "vercel"}
                                          /\ x.failAt = 0 /\ x.probe = "ok"},
            out \in outs \ {<< >>}}

\* deployments to every platform, whose deploy command prints nothing or a
\* URL
DeployInputs == Printing({<< >>, <<Word("", "https://", "a")>>})

\* deployments to netlify and vercel, with every output of the deploy
\* command; the output is enumerated without --prod, which the extraction
\* of the URL does not read
PublishInputs ==
    {r \in Printing(Outputs) : /\ r.platform \in {"netlify", "vercel"}
                               /\ r.failAt \in {0, 2}
                               /\ r.stdout # << >> => ~r.production}

Deploy(inputs) ==
    \E site \in DeploySites, chosenBuild \in ToolOutcomes :
        /\ ~IsDir(fsDirs, cwd, site) \/ "hugo" \notin path => chosenBuild = "ok"
        /\ \E r \in inputs :
              /\ ~IsDir(fsDirs, cwd, site) \/ "hugo" \notin path \/ chosenBuild = "fail"
                   \/ ~site.abs => Plain(r)
              /\ \E o \in {deploy_site(cwd, fsDirs, fsFiles, path, site, r.platform, "public",
                                        "main", "Update site", r.remote_url, r.api_key,
                                        r.production, chosenBuild, r.failAt, r.probe, r.stdout)} :
                     /\ r.failAt # 0 => \E i \in 1..Len(o.cmds) :
                                            o.cmds[i].out = "fail" /\ ~o.cmds[i].caught
                     /\ o.env.status # "success" => r.stdout = << >>
                     /\ Len(OriginUrl(o.files, o.cwd)) <= MaxUrl
                     /\ CommitLast("deploy_site", "main",
                                   [site_path |-> site, platform |-> r.platform,
                                    remote_url |-> r.remote_url, api_key |-> r.api_key,
                                    production |-> r.production, stdout |-> r.stdout,
                                    met |-> [path |-> path, build |-> chosenBuild,
                                             failAt |-> r.failAt, probe |-> r.probe]],
                                   o)
                     /\ path' = path \cup Installed(o.cmds)
        /\ UNCHANGED <<system, prev>>

\* the directories the server is started in; a call changes the working
\* directory to the site alone, which is none of them
StartDirs == {<< >>, W}

\* the site is no repository, or one whose origin is an https URL, or one
\* whose origin is an ssh URL
Origins == {<< >>, <<"https://", "host">>, <<"git@", "host">>}

InitDeploy ==
    /\ \E origin \in Origins :
          /\ fsDirs = {<< >>, W, S} \cup (IF origin # << >> THEN {Append(S, ".git")} ELSE {})
          /\ fsFiles = [q \in {Append(S, "hugo.toml")}
                               \cup (IF origin # << >> THEN {OriginFile(S)} ELSE {}) |->
                          IF q = OriginFile(S) THEN <<origin>>
                          ELSE <<<<"title = ", "'site'">>>>]
    /\ cwd \in StartDirs
    /\ path \in {{"hugo", "git", "npm", "netlify", "vercel"}, {"hugo", "git", "npm"},
                 {"hugo"}, {}}
    /\ system = "linux"
    /\ procs = NoProcs
    /\ active = {}
    /\ last = Idle
    /\ prev = Brief(Idle)
    /\ loop = NoLoop

DeploySite == Deploy(DeployInputs)

PublishSite == Deploy(PublishInputs)

NextDeploy == BuildSite \/ DeploySite

SpecDeploy == InitDeploy /\ [][NextDeploy]_vars

\* building a site and deploying it to netlify and vercel
InitPublish ==
    /\ fsDirs = {<< >>, W, S}
    /\ fsFiles = [q \in {Append(S, "hugo.toml")} |-> <<<<"title = ", "'site'">>>>]
    /\ cwd = << >>
    /\ path \in {{"hugo", "npm", "netlify", "vercel"}, {"hugo", "npm"}}
    /\ system = "linux"
    /\ procs = NoProcs
    /\ active = {}
    /\ last = Idle
    /\ prev = Brief(Idle)
    /\ loop = NoLoop

NextPublish == BuildSite \/ PublishSite

SpecPublish == InitPublish /\ [][NextPublish]_vars

IsBuild(cmd) == cmd.exe = "hugo"
IsPush(cmd) == cmd.exe = "git" /\ cmd.argv[1] = "push"

\* deploy_site called on an existing site with a platform that is none of
\* the four
UnsupportedCall ==
    /\ last.op = "deploy_site"
    /\ last.args.platform \notin SupportedPlatforms
    /\ Lower(last.args.platform) \notin SupportedPlatforms
    /\ IsDir(last.pre.dirs, last.pre.cwd, last.args.site_path)

\* C8: deploy_site with a platform outside {github-pages, netlify, vercel,
\* custom} returns status=error whose message identifies the unsupported
\* platform, and invokes neither a build command nor a push command.
C8_UnsupportedPlatformRejected ==
    UnsupportedCall =>
        /\ last.env.status = "error"
        /\ last.env.msg = UnsupportedPlatform /\ last.env.detail = last.args.platform
        /\ \A i \in Invoked(last) : ~IsBuild(last.cmds[i]) /\ ~IsPush(last.cmds[i])

\* the commands of call r that did not exit 0 although their executable
\* was launched with check=True outside a try block of their own
Uncaught(r) == {i \in 1..Len(r.cmds) : r.cmds[i].out # "ok" /\ ~r.cmds[i].caught}

\* the probes of call r whose failure its own except clause caught
CaughtProbes(r) == {i \in 1..Len(r.cmds) : r.cmds[i].out # "ok" /\ r.cmds[i].caught}

\* what the commands of call r that exited 0 have made: the repository of
\* "git init", the destination of the build
MadeBy(r) ==
    GitInit({}, r.cmds)
      \cup {Append(r.cmds[i].dir, "public") :
               i \in {j \in 1..Len(r.cmds) : IsBuild(r.cmds[j]) /\ r.cmds[j].out = "ok"}}

SupportedCall ==
    /\ last.op = "deploy_site"
    /\ Lower(last.args.platform) \in SupportedPlatforms
    /\ Lower(last.args.platform) = "custom" => last.args.remote_url # ""
    /\ IsDir(last.pre.dirs, last.pre.cwd, last.args.site_path)

\* the envelope of the build_site call that deploy_site call r made
BuildEnvelope(r) ==
    build_site(Resolve(r.pre.cwd, r.args.site_path), r.pre.dirs, r.pre.files, path,
               r.args.site_path, "public", TRUE, FALSE,
               IF r.cmds = << >> THEN "ok" ELSE r.cmds[1].out).env

\* C18: for every supported platform, deploy_site runs the production build
\* before any command of the platform, and when the build does not return
\* status=success it invokes no stage, commit, push, install, login or
\* deploy command and returns the error envelope of the build.
C18_BuildBeforeDeploy ==
    SupportedCall =>
        /\ last.cmds # << >> =>
              /\ IsBuild(last.cmds[1])
              /\ last.cmds[1].argv = <<"--destination", "public", "--cleanDestinationDir">>
        /\ \A i \in 2..Len(last.cmds) : ~IsBuild(last.cmds[i])
        /\ BuildEnvelope(last).status # "success" =>
              /\ Len(last.cmds) <= 1
              /\ last.env = BuildEnvelope(last) /\ last.env.status = "error"
        /\ Len(last.cmds) > 1 => last.cmds[1].out = "ok"

\* deploy_site to a supported platform whose build exited non-zero
C18_BuildFailedNothingDeployed ==
    /\ SupportedCall /\ last.args.platform = "github-pages"
    /\ Len(last.cmds) = 1 /\ last.cmds[1].out = "fail"
    /\ last.env.status = "error"

IsStage(cmd) == cmd.exe = "git" /\ cmd.argv[1] = "add"
IsCommit(cmd) == cmd.exe = "git" /\ cmd.argv[1] = "commit"

\* the deploy command of the netlify and the vercel command line tools
IsPlatformDeploy(cmd) ==
    \/ cmd.exe = "netlify" /\ cmd.argv[1] = "deploy"
    \/ cmd.exe = "vercel" /\ cmd.argv[1] = "--cwd"

\* before command i of the call, a stage command and after it a commit
\* command have exited 0
StagedAndCommitted(r, i) ==
    \E j \in 1..(i - 1), k \in 1..(i - 1) :
        /\ j < k
        /\ IsStage(r.cmds[j]) /\ r.cmds[j].out = "ok"
        /\ IsCommit(r.cmds[k]) /\ r.cmds[k].out = "ok"

\* C21 as stated: in every deploy_site call a push command or a platform
\* deploy command is issued only after a stage command and then a commit
\* command of the same call have succeeded.
C21_DeployAfterStageAndCommit ==
    last.op = "deploy_site" =>
        \A i \in 1..Len(last.cmds) :
            IsPush(last.cmds[i]) \/ IsPlatformDeploy(last.cmds[i]) =>
                StagedAndCommitted(last, i)

\* C21: in every deploy_site call a git push is issued only after the stage
\* command and then the commit command of the same call have succeeded (the
\* github-pages and custom paths); a call that issues the deploy command of
\* netlify or vercel issues no stage, commit or push command at all, and the
\* deploy command comes after the version probe or the install of the
\* command line tool has succeeded.
C21_PushAfterStageAndCommit ==
    last.op = "deploy_site" =>
        \A i \in 1..Len(last.cmds) :
            /\ IsPush(last.cmds[i]) => StagedAndCommitted(last, i)
            /\ IsPlatformDeploy(last.cmds[i]) =>
                  /\ \A j \in 1..Len(last.cmds) :
                        ~IsStage(last.cmds[j]) /\ ~IsCommit(last.cmds[j])
                          /\ ~IsPush(last.cmds[j])
                  /\ \E j \in 1..(i - 1) :
                        /\ last.cmds[j].out = "ok"
                        /\ last.cmds[j].argv \in {<<"--version">>,
                                                   <<"install", "-g", "netlify-cli">>,
                                                   <<"install", "-g", "vercel">>}

\* a deployment whose push was issued after stage and commit, and failed
C21_PushFailedAfterCommit ==
    /\ last.op = "deploy_site"
    /\ \E i \in 1..Len(last.cmds) :
          /\ IsPush(last.cmds[i]) /\ last.cmds[i].out = "fail"
          /\ StagedAndCommitted(last, i)
    /\ last.env.status = "error"

OtherKey(api_key) == IF api_key = "k" THEN "j" ELSE "k"

\* C24: the api_key given to deploy_site is not in the envelope it returns:
\* the call with another api_key, from the same state and with the same
\* exits of the tools, returns the same envelope.
C24_ApiKeyNotInEnvelope ==
    last.op = "deploy_site" /\ last.args.api_key # "" =>
        last.env = deploy_site(last.pre.cwd, last.pre.dirs, last.pre.files,
                               last.args.met.path, last.args.site_path,
                               last.args.platform, "public", "main", "Update site",
                               last.args.remote_url, OtherKey(last.args.api_key),
                               last.args.production, last.args.met.build,
                               last.args.met.failAt, last.args.met.probe,
                               last.args.stdout).env

\* C28: a build_site or deploy_site call does not depend on the working
\* directory that earlier calls left behind: a relative site_path is
\* resolved against the directory the server was started in, and when the
\* directory so named exists the call does not report it missing and runs
\* every command, the build of deploy_site included, in that directory.
C28_IndependentOfWorkingDirectory ==
    last.op \in {"build_site", "deploy_site"} =>
        /\ ~last.args.site_path.abs => last.pre.cwd \in StartDirs
        /\ IsDir(last.pre.dirs, last.pre.cwd, last.args.site_path) =>
              /\ last.env.msg # SiteMissing
              /\ \A i \in 1..Len(last.cmds) :
                    last.cmds[i].dir = Resolve(last.pre.cwd, last.args.site_path)

\* deploy_site with the platform "custom", in any case of the letters, on a
\* site whose build has succeeded
CustomCall ==
    /\ last.op = "deploy_site"
    /\ Lower(last.args.platform) = "custom"
    /\ Len(last.cmds) >= 1 /\ IsBuild(last.cmds[1]) /\ last.cmds[1].out = "ok"

\* C29: deploy_site with the platform "custom" runs the deployment to the
\* custom remote exactly when remote_url is not empty; without a remote_url
\* it returns status=error after the build alone, with a message that is not
\* the one of an unsupported platform.
C29_CustomNeedsRemoteUrl ==
    CustomCall =>
        /\ last.args.remote_url # "" <=> Len(last.cmds) > 1
        /\ last.args.remote_url = "" =>
              /\ last.env.status = "error"
              /\ last.env.msg # UnsupportedPlatform

\* how often the URL holds the token
TokensIn(url, api_key) == Cardinality({i \in 1..Len(url) : url[i] = api_key})

\* C27: after a successful deploy_site to github-pages with an api_key, on a
\* repository whose origin is an https URL, the URL of origin holds the
\* token exactly once, however many such calls came before.
C27_TokenOnceInOrigin ==
    /\ last.op = "deploy_site" /\ last.args.platform = "github-pages"
    /\ last.args.api_key # "" /\ last.env.status = "success"
    /\ OriginUrl(last.pre.files, last.post.cwd) # << >>
    /\ OriginUrl(last.pre.files, last.post.cwd)[1] = "https://"
    => TokensIn(OriginUrl(fsFiles, last.post.cwd), last.args.api_key) = 1

\* deploy_site to netlify or vercel whose deploy command has exited 0
CliDeployed ==
    /\ last.op = "deploy_site"
    /\ Lower(last.args.platform) \in {"netlify", "vercel"}
    /\ \E i \in 1..Len(last.cmds) :
          IsPlatformDeploy(last.cmds[i]) /\ last.cmds[i].out = "ok"

\* the places of the https URLs in an output
UrlsIn(stdout) == {i \in 1..Len(stdout) : Matches(stdout[i])}

\* C23: for netlify and vercel, when the deploy command exits 0 the result
\* is status=success; its url is the sentinel "URL not found in output" when
\* the output has no https URL, and the first https URL of the output when
\* it has one or more.
C23_UrlOrSentinel ==
    CliDeployed =>
        /\ last.env.status = "success"
        /\ UrlsIn(last.args.stdout) = {} => last.env.data.url = UrlNotFound
        /\ UrlsIn(last.args.stdout) # {} =>
              LET first == CHOOSE i \in UrlsIn(last.args.stdout) :
                               \A j \in UrlsIn(last.args.stdout) : i <= j
              IN  last.env.data.url = "https://" \o last.args.stdout[first].rest

\* a deploy command that exited 0 and printed an http URL and "https://"
\* with nothing after it, but no https URL
C23_NoUrlInOutput ==
    /\ CliDeployed
    /\ Len(last.args.stdout) = 2 /\ UrlsIn(last.args.stdout) = {}
    /\ \E i \in 1..2 : last.args.stdout[i].scheme = "https://"
    /\ last.env.data.url = UrlNotFound

----------------------------------------------------------------------------
(* The theme catalog: list_themes, get_theme_details *)

NetworkError == "Network error: "
FailedFetchThemes == "Failed to fetch themes: HTTP "
FailedListThemes == "Failed to list themes: "
FailedFetchList == "Failed to fetch themes list"
ThemeNotFound == "Theme not found on the Hugo themes website"
NoDetailsPage == "Could not fetch theme details page"
FailedThemeDetails == "Failed to get theme details: "

\* what requests.get meets: the host is not reached (a RequestException),
\* or a response with a status code and a page
Response(reach, code, page) == [reach |-> reach, code |-> code, page |-> page]

\* one <li> of the catalog page: the text of its name element, the href of
\* its theme link and the src of its image, "" for an element that is absent
Item(name, href, img) == [name |-> name, href |-> href, img |-> img]

ThemeRecord(item) ==
    [name |-> item.name,
     url |-> "https://github.com/gohugoio/hugoThemes/tree/master/themes" \o item.href,
     image |-> IF item.img # "" THEN "https://themes.gohugo.io" \o item.img ELSE "None"]

HasNameAndLink(item) == item.name # "" /\ item.href # ""

\* the loop over theme_items: an item without a name or a link is skipped
ParseThemes(page) ==
    LET kept == SelectSeq(page, HasNameAndLink)
    IN  [i \in 1..Len(kept) |-> ThemeRecord(kept[i])]

\* list_themes as it would be without its "except requests.RequestException"
\* clause: the fault reaches the handler of Exception
list_themes_generic(resp) ==
    IF ~resp.reach THEN Envelope("error", FailedListThemes, "ConnectionError", NoData)
    ELSE IF resp.code # 200
    THEN Envelope("error", FailedFetchThemes, ToString(resp.code), NoData)
    ELSE Envelope("success", "", "",
                  [themes |-> ParseThemes(resp.page), count |-> Len(ParseThemes(resp.page))])

\* list_themes as it would be if it counted the items of the page instead
\* of the themes it kept
list_themes_counting_items(resp) ==
    IF ~resp.reach THEN Envelope("error", NetworkError, "ConnectionError", NoData)
    ELSE IF resp.code # 200
    THEN Envelope("error", FailedFetchThemes, ToString(resp.code), NoData)
    ELSE Envelope("success", "", "",
                  [themes |-> ParseThemes(resp.page), count |-> Len(resp.page)])

\* src/utils/theme.py list_themes (src/main.py list_themes is the same code)
list_themes(resp) ==
    IF ~resp.reach THEN Envelope("error", NetworkError, "ConnectionError", NoData)
    ELSE IF resp.code # 200
    THEN Envelope("error", FailedFetchThemes, ToString(resp.code), NoData)
    ELSE Envelope("success", "", "",
                  [themes |-> ParseThemes(resp.page), count |-> Len(ParseThemes(resp.page))])

\* what the detail page adds to the theme record (theme_info.update)
Detailed(info, page) ==
    [name |-> info.name, url |-> info.url, image |-> info.image,
     description |-> page.description, features |-> page.features, tags |-> page.tags,
     github_url |-> page.github_url, demo_url |-> page.demo_url,
     installation |-> page.installation]

\* src/utils/theme.py get_theme_details (src/main.py get_theme_details is
\* the same code)
get_theme_details(theme_name, resp, detail) ==
    LET themes_result == list_themes(resp)
    IN
    IF themes_result.status # "success"
    THEN Envelope("error", FailedFetchList, "", NoData)
    ELSE
    LET themes == themes_result.data.themes
        hits   == {i \in 1..Len(themes) : Lower(themes[i].name) = Lower(theme_name)}
    IN
    IF hits = {}
    THEN Envelope("error", ThemeNotFound, theme_name, NoData)
    ELSE
    LET theme_info == themes[CHOOSE i \in hits : \A j \in hits : i <= j]
    IN
    IF ~detail.reach THEN Envelope("error", NetworkError, "ConnectionError", NoData)
    ELSE IF detail.code # 200
    THEN Envelope("partial", NoDetailsPage, "", [theme |-> theme_info])
    ELSE Envelope("success", "", "", [theme |-> Detailed(theme_info, detail.page)])

\* The catalog as the server may meet it

MaxItems == 2

StatusCodes == {200, 204, 404, 500}

Items == {Item("ananke", "/themes/ananke/", "/img/ananke.png"),
          Item("Ananke", "/themes/ananke2/", ""),
          Item("papermod", "/themes/papermod/", ""),
          Item("", "/themes/x/", "")}

Pages == UNION {[1..n -> Items] : n \in 0..MaxItems}

DetailPages ==
    {[description |-> "d", features |-> <<"f">>, tags |-> <<"t">>,
      github_url |-> "https://github.com/x/y", demo_url |-> "https://demo",
      installation |-> "i"],
     [description |-> "", features |-> << >>, tags |-> << >>,
      github_url |-> "None", demo_url |-> "None", installation |-> ""]}

Responses(pages) ==
    {Response(FALSE, 0, CHOOSE x \in pages : TRUE)}
      \cup {Response(TRUE, code, CHOOSE x \in pages : TRUE) : code \in StatusCodes \ {200}}
      \cup {Response(TRUE, 200, page) : page \in pages}

ThemeNames == {"ananke", "Ananke", "hermit"}

\* an operation that touches neither the file system nor a process
Answer(env) == Outcome(env, "none", << >>, cwd, fsDirs, fsFiles)

ListThemes ==
    \E resp \in Responses(Pages) :
        /\ CommitLast("list_themes", "utils", [catalog |-> resp], Answer(list_themes(resp)))
        /\ UNCHANGED <<path, system, prev>>

GetThemeDetails ==
    \E theme_name \in ThemeNames, resp \in Responses(Pages), detail \in Responses(DetailPages) :
        /\ list_themes(resp).status # "success" => detail = Response(FALSE, 0, detail.page)
        /\ CommitLast("get_theme_details", "utils",
                      [theme_name |-> theme_name, catalog |-> resp, detail |-> detail],
                      Answer(get_theme_details(theme_name, resp, detail)))
        /\ UNCHANGED <<path, system, prev>>

InitCatalog ==
    /\ fsDirs = {<< >>}
    /\ fsFiles = NoFiles
    /\ cwd = << >>
    /\ path = {}
    /\ system = "linux"
    /\ procs = NoProcs
    /\ active = {}
    /\ last = Idle
    /\ prev = Brief(Idle)
    /\ loop = NoLoop

NextCatalog == ListThemes \/ GetThemeDetails

SpecCatalog == InitCatalog /\ [][NextCatalog]_vars

\* C9: list_themes against an unreachable catalog host returns status=error
\* with a network-error message and raises nothing, and no envelope that
\* list_themes returns has status=error together with a themes list.
C9_ListThemesNetworkError ==
    last.op = "list_themes" =>
        /\ ~last.args.catalog.reach =>
              /\ last.env.status = "error" /\ last.env.msg = NetworkError
              /\ last.raised = "none"
        /\ last.env.status = "error" => "themes" \notin DOMAIN last.env.data

\* list_themes has met an unreachable host and returned
C9_Unreachable ==
    /\ last.op = "list_themes" /\ ~last.args.catalog.reach
    /\ last.env.status = "error"

\* the record of the theme that call r asks for, as the listing gives it
ListedAs(r) ==
    LET themes == ParseThemes(r.args.catalog.page)
        hits   == {i \in 1..Len(themes) : Lower(themes[i].name) = Lower(r.args.theme_name)}
    IN  {themes[i] : i \in {j \in hits : \A k \in hits : j <= k}}

\* get_theme_details found the theme in the listing
FoundInListing(r) ==
    /\ r.op = "get_theme_details"
    /\ r.args.catalog.reach /\ r.args.catalog.code = 200
    /\ ListedAs(r) # {}

\* the fetch of the detail page failed: no answer, or an answer other than 200
DetailFetchFailed(r) == ~r.args.detail.reach \/ r.args.detail.code # 200

\* C15: get_theme_details returns status=partial, with the theme record of
\* the listing in the payload, whenever the theme was found in the listing
\* but the fetch of its detail page failed (host unreachable or a status
\* other than success); nothing else returns status=partial.
C15_PartialWhenDetailFetchFails ==
    /\ FoundInListing(last) /\ DetailFetchFailed(last) =>
          /\ last.env.status = "partial"
          /\ {last.env.data.theme} = ListedAs(last)
    /\ last.env.status = "partial" => FoundInListing(last) /\ DetailFetchFailed(last)

\* the messages of list_themes that tell of a failed fetch
FetchFailures == {NetworkError, FailedFetchThemes}

\* list_themes got an answer from the catalog host
Answered(r) == r.op = "list_themes" /\ r.args.catalog.reach

\* a success envelope of list_themes counts the themes it carries; a page
\* without a match gives an empty list
CountsThemes(r) ==
    r.env.status = "success" =>
        /\ r.env.data.count = Len(r.env.data.themes)
        /\ r.env.data.themes = ParseThemes(r.args.catalog.page)
        /\ ParseThemes(r.args.catalog.page) = << >> =>
              r.env.data.themes = << >> /\ r.env.data.count = 0

\* C16 as stated: list_themes returns a network error for every non-2xx
\* response and status=success for every 2xx response; a page without a
\* match gives an empty list with count 0, and count is the length of themes.
C16_SuccessOnEvery2xx ==
    Answered(last) =>
        /\ last.args.catalog.code \notin 200..299 =>
              last.env.status = "error" /\ last.env.msg \in FetchFailures
        /\ last.args.catalog.code \in 200..299 => last.env.status = "success"
        /\ CountsThemes(last)

\* C16, amended: list_themes returns status=error with the message "Failed
\* to fetch themes: HTTP <code>" for every response whose status code is not
\* 200, the other 2xx codes included, and status=success for a response
\* with status code 200; a page without a match gives an empty list with
\* count 0, and count is the length of themes.
C16_SuccessOn200Only ==
    Answered(last) =>
        /\ last.args.catalog.code # 200 =>
              /\ last.env.status = "error" /\ last.env.msg = FailedFetchThemes
              /\ last.env.detail = ToString(last.args.catalog.code)
        /\ last.args.catalog.code = 200 => last.env.status = "success"
        /\ CountsThemes(last)

\* list_themes read a page that has items but no theme among them
C16_PageWithoutMatch ==
    /\ Answered(last) /\ last.args.catalog.code = 200
    /\ Len(last.args.catalog.page) > 0
    /\ last.env.status = "success" /\ last.env.data.themes = << >>

----------------------------------------------------------------------------
(* Environment setup: the installation checks and the install_* tools *)

GoNotInstalled == "Go is not installed or not in PATH"
GitNotInstalled == "Git is not installed or not in PATH"
InstallationFailed == "Installation failed: "
UnsupportedLinux == "Unsupported Linux distribution. Please install manually."
WindowsNotSupported == "Windows installation not supported via this tool."
UnsupportedSystem == "Unsupported operating system: "
FailedConfigureGit == "Failed to configure Git: "
GitConfigured == "Git configured with name and email"

\* the three install_* tools, which differ in names only: label is the
\* tool's name in the messages, package what the package manager installs.
\* Only CalledProcessError is caught: a launch that finds no executable
\* raises FileNotFoundError out of the tool.
install_with(c, dirs, files, pth, sys, label, package, failAt) ==
    LET manager == IF "apt" \in pth THEN "apt"                       \* shutil.which
                   ELSE IF "dnf" \in pth THEN "dnf"
                   ELSE IF "yum" \in pth THEN "yum" ELSE ""
        steps   == IF sys = "darwin" THEN <<Step("brew", <<"install", package>>)>>
                   ELSE IF manager = "apt"
                   THEN <<Step("sudo", <<"apt", "update">>),
                          Step("sudo", <<"apt", "install", "-y", package>>)>>
                   ELSE <<Step("sudo", <<manager, "install", "-y", package>>)>>
        cmds    == Run(pth, c, steps, failAt, "ok", FALSE)
        via     == IF sys = "darwin" THEN "Homebrew" ELSE manager
    IN
    IF sys = "windows"
    THEN Outcome(Envelope("error", WindowsNotSupported, label, NoData), "none", << >>, c, dirs, files)
    ELSE IF sys \notin {"darwin", "linux"}
    THEN Outcome(Envelope("error", UnsupportedSystem, sys, NoData), "none", << >>, c, dirs, files)
    ELSE IF sys = "linux" /\ manager = ""
    THEN Outcome(Envelope("error", UnsupportedLinux, label, NoData), "none", << >>, c, dirs, files)
    ELSE IF Passed(cmds)
    THEN Outcome(Envelope("success", label \o " installed via " \o via, "", NoData),
                 "none", cmds, c, dirs, files)
    ELSE IF cmds[Len(cmds)].out = "fail"
    THEN Outcome(Envelope("error", InstallationFailed, ErrText(cmds[Len(cmds)].exe, "fail"),
                          NoData), "none", cmds, c, dirs, files)
    ELSE Outcome(NoEnvelope, "FileNotFoundError", cmds, c, dirs, files)

\* src/main.py install_hugo
install_hugo(c, dirs, files, pth, sys, failAt) ==
    install_with(c, dirs, files, pth, sys, "Hugo", "hugo", failAt)

\* src/main.py install_go
install_go(c, dirs, files, pth, sys, failAt) ==
    install_with(c, dirs, files, pth, sys, "Go", "golang", failAt)

\* src/main.py install_git
install_git(c, dirs, files, pth, sys, failAt) ==
    install_with(c, dirs, files, pth, sys, "Git", "git", failAt)

\* src/main.py check_go_installation (src/utils/system.py has the same code)
check_go_installation(c, dirs, files, pth, chosen) ==
    LET out  == Launch(pth, "go", chosen)
        cmds == <<Cmd("go", <<"version">>, c, out)>>
    IN
    IF out = "ok"
    THEN Outcome(Envelope("success", "", "", [version |-> "stdout"]), "none", cmds, c, dirs, files)
    ELSE IF out = "fail"
    THEN Outcome(Envelope("error", GoNotInstalled, ErrText("go", out), NoData),
                 "none", cmds, c, dirs, files)
    ELSE Outcome(Envelope("error", GoNotInstalled, "", NoData), "none", cmds, c, dirs, files)

\* src/main.py check_git_installation (src/utils/system.py has the same
\* code): the three "git config" commands run without check=True, their
\* exit code is read
check_git_installation(c, dirs, files, pth, chosen, name, email, branch) ==
    LET out  == Launch(pth, "git", chosen)
        first == <<Cmd("git", <<"--version">>, c, out)>>
        conf == <<[Cmd("git", <<"config", "user.name">>, c, name) EXCEPT !.caught = TRUE],
                  [Cmd("git", <<"config", "user.email">>, c, email) EXCEPT !.caught = TRUE],
                  [Cmd("git", <<"config", "--global", "init.defaultBranch">>, c, branch)
                      EXCEPT !.caught = TRUE]>>
    IN
    IF out = "ok"
    THEN Outcome(Envelope("success", "", "",
                          [version |-> "stdout",
                           user |-> [name |-> IF name = "ok" THEN "stdout" ELSE "None",
                                     email |-> IF email = "ok" THEN "stdout" ELSE "None"],
                           default_branch |-> IF branch = "ok" THEN "stdout" ELSE "main"]),
                 "none", first \o conf, c, dirs, files)
    ELSE IF out = "fail"
    THEN Outcome(Envelope("error", GitNotInstalled, ErrText("git", out), NoData),
                 "none", first, c, dirs, files)
    ELSE Outcome(Envelope("error", GitNotInstalled, "", NoData), "none", first, c, dirs, files)

\* src/main.py configure_git
configure_git(c, dirs, files, pth, name, email, failAt) ==
    LET cmds == Run(pth, c, <<Step("git", <<"config", "--global", "user.name", name>>),
                              Step("git", <<"config", "--global", "user.email", email>>)>>,
                    failAt, "ok", FALSE)
    IN
    IF Passed(cmds)
    THEN Outcome(Envelope("success", GitConfigured, "", NoData), "none", cmds, c, dirs, files)
    ELSE Outcome(CommandError(cmds, FailedConfigureGit), "none", cmds, c, dirs, files)

\* Setting up a machine

Systems == {"darwin", "linux", "windows", "freebsd"}

\* the executable an install_* tool puts on the search path when it succeeds
InstallAction(op, tool, o) ==
    /\ Commit(op, "main", [tool |-> tool], o)
    /\ path' = IF o.env.status = "success" THEN path \cup {tool} ELSE path
    /\ UNCHANGED system

InstallHugo ==
    \E failAt \in 0..2 :
        /\ failAt # 0 => install_hugo(cwd, fsDirs, fsFiles, path, system, failAt).env.status
                           # "success"
        /\ InstallAction("install_hugo", "hugo",
                         install_hugo(cwd, fsDirs, fsFiles, path, system, failAt))

InstallGo ==
    \E failAt \in 0..2 :
        /\ failAt # 0 => install_go(cwd, fsDirs, fsFiles, path, system, failAt).env.status
                           # "success"
        /\ InstallAction("install_go", "go",
                         install_go(cwd, fsDirs, fsFiles, path, system, failAt))

InstallGit ==
    \E failAt \in 0..2 :
        /\ failAt # 0 => install_git(cwd, fsDirs, fsFiles, path, system, failAt).env.status
                           # "success"
        /\ InstallAction("install_git", "git",
                         install_git(cwd, fsDirs, fsFiles, path, system, failAt))

CheckGo ==
    \E chosen \in ToolOutcomes :
        /\ "go" \notin path => chosen = "ok"
        /\ Commit("check_go_installation", "main", NoData,
                  check_go_installation(cwd, fsDirs, fsFiles, path, chosen))
        /\ UNCHANGED <<path, system>>

CheckGit ==
    \E chosen \in ToolOutcomes, name \in ToolOutcomes, email \in ToolOutcomes,
       branch \in ToolOutcomes :
        /\ "git" \notin path => chosen = "ok"
        /\ Launch(path, "git", chosen) # "ok" => name = "ok" /\ email = "ok" /\ branch = "ok"
        /\ name = email
        /\ Commit("check_git_installation", "main", NoData,
                  check_git_installation(cwd, fsDirs, fsFiles, path, chosen, name, email,
                                         branch))
        /\ UNCHANGED <<path, system>>

ConfigureGit ==
    \E failAt \in 0..2 :
        /\ "git" \notin path => failAt = 0
        /\ Commit("configure_git", "main", [name |-> "n", email |-> "e"],
                  configure_git(cwd, fsDirs, fsFiles, path, "n", "e", failAt))
        /\ UNCHANGED <<path, system>>

InitSetup ==
    /\ fsDirs = {<< >>}
    /\ fsFiles = NoFiles
    /\ cwd = << >>
    /\ system \in Systems
    /\ \E managers \in SUBSET {"brew", "sudo", "apt", "dnf", "yum"} :
          /\ Cardinality(managers \cap {"apt", "dnf", "yum"}) <= 1
          /\ "brew" \in managers => system = "darwin"
          /\ (managers \ {"brew"}) # {} => system = "linux"
          /\ path = managers
    /\ procs = NoProcs
    /\ active = {}
    /\ last = Idle
    /\ prev = Brief(Idle)
    /\ loop = NoLoop

NextSetup ==
    \/ InstallHugo \/ InstallGo \/ InstallGit
    \/ CheckHugo \/ CheckGo \/ CheckGit \/ ConfigureGit

SpecSetup == InitSetup /\ [][NextSetup]_vars

\* the messages that tell the caller an executable was not found
NotInstalled == {HugoNotInstalled, GoNotInstalled, GitNotInstalled}

\* the last call tried to launch an executable that is not on the search
\* path, outside a try block that catches this
MetMissingExecutable ==
    \E i \in 1..Len(last.cmds) : last.cmds[i].out = "missing" /\ ~last.cmds[i].caught

\* C1: an operation that invokes an external command whose executable is
\* not on the search path returns an envelope with status=error whose
\* message tells that an executable is missing, and raises no exception.
C1_MissingExecutableReported ==
    MetMissingExecutable =>
        /\ last.raised = "none"
        /\ last.env.status = "error"
        /\ \/ last.env.msg \in NotInstalled
           \/ last.env.detail = "[Errno 2] No such file or directory"

\* a command of the last call ended in an exception (non-zero exit under
\* check=True, or no such executable) that no inner try block caught
FaultRaised ==
    \E i \in 1..Len(last.cmds) : last.cmds[i].out # "ok" /\ ~last.cmds[i].caught

\* C11: every registered operation converts every fault raised inside it
\* into an envelope with status=error: no exception leaves the operation,
\* the installation checks and the install_* tools included.
C11_EveryFaultConverted ==
    last.op # "none" =>
        /\ last.raised = "none"
        /\ FaultRaised => last.env.status = "error"

----------------------------------------------------------------------------
(* The result envelope of every operation *)

\* the messages with which an operation describes a failure
FailureMessages ==
    {CurrentDirNotEmpty, DirNotEmpty, DirExists, FailedCreateSite, Unexpected,
     SiteMissing, FailedCreatePost, ContentDirMissing,
     ServerFailed, PidNotFound, FailedStop, HugoNotInstalled,
     FailedInstallTheme, FailedUpdateTheme,
     BuildFailed, DeploymentFailed, UnsupportedPlatform, GitHubPagesFailed,
     NetlifyFailed, VercelFailed, CustomFailed,
     NetworkError, FailedFetchThemes, FailedListThemes, FailedFetchList, ThemeNotFound,
     NoDetailsPage, FailedThemeDetails,
     GoNotInstalled, GitNotInstalled, InstallationFailed, UnsupportedLinux,
     WindowsNotSupported, UnsupportedSystem, FailedConfigureGit}

\* the envelopes of the catalog operations, whatever the catalog answers
CatalogEnvelopes ==
    {list_themes(resp) : resp \in Responses(Pages)}
      \cup {get_theme_details(name, resp, detail) :
              name \in ThemeNames, resp \in Responses(Pages),
              detail \in Responses(DetailPages)}

\* the envelopes that the operations on a site, on a process and on the
\* machine return when called in the present state
StateEnvelopes ==
    {create_site(cwd, fsDirs, fsFiles, path, root, name, force, icd, chosen).env :
        root \in SiteRoots, name \in SiteNames, force \in BOOLEAN, icd \in BOOLEAN,
        chosen \in ToolOutcomes}
      \cup {main_create_site(cwd, fsDirs, fsFiles, path, root, name, force, chosen, git).env :
              root \in SiteRoots, name \in SiteNames, force \in BOOLEAN,
              chosen \in ToolOutcomes, git \in ToolOutcomes}
      \cup {create_post(cwd, fsDirs, fsFiles, path, site, title, type, draft, date, chosen,
                        archetype).env :
              site \in ContentSites, title \in Titles, type \in ContentTypes,
              draft \in BOOLEAN, date \in Dates, chosen \in ToolOutcomes,
              archetype \in Archetypes}
      \cup {list_content(cwd, fsDirs, fsFiles, site, type).env :
              site \in ContentSites, type \in ContentTypes \cup {""}}
      \cup {start_preview(cwd, fsDirs, fsFiles, path, procs, active, site, "1313",
                          "127.0.0.1", drafts, browser, MaxPid, exited).env :
              site \in PreviewSites, drafts \in BOOLEAN, browser \in BOOLEAN,
              exited \in BOOLEAN}
      \cup {stop_preview(cwd, fsDirs, fsFiles, procs, active, pid).env : pid \in Pids}
      \cup {install_theme(cwd, fsDirs, fsFiles, path, site, t.name, t.url, module, init,
                          get).env :
              site \in ThemeSites, t \in Themes, module \in BOOLEAN,
              init \in ToolOutcomes, get \in ToolOutcomes}
      \cup {update_theme(cwd, fsDirs, fsFiles, path, site, t.name, module, chosen).env :
              site \in ThemeSites, t \in Themes, module \in BOOLEAN, chosen \in ToolOutcomes}
      \cup {check_hugo_installation(cwd, fsDirs, fsFiles, path, chosen).env :
              chosen \in ToolOutcomes}
      \cup {check_go_installation(cwd, fsDirs, fsFiles, path, chosen).env :
              chosen \in ToolOutcomes}
      \cup {check_git_installation(cwd, fsDirs, fsFiles, path, chosen, name, name, branch).env :
              chosen \in ToolOutcomes, name \in ToolOutcomes, branch \in ToolOutcomes}
      \cup {configure_git(cwd, fsDirs, fsFiles, path, "n", "e", failAt).env : failAt \in 0..2}

\* the envelopes the install_* tools return on the systems they know of;
\* a tool that raises returns none
InstallEnvelopes ==
    {o.env : o \in {x \in UNION {{install_hugo(cwd, fsDirs, fsFiles, path, sys, failAt),
                                  install_go(cwd, fsDirs, fsFiles, path, sys, failAt),
                                  install_git(cwd, fsDirs, fsFiles, path, sys, failAt)} :
                                    sys \in Systems, failAt \in 0..2} : x.raised = "none"}}

WellFormed(env) ==
    /\ env.status \in {"success", "error", "partial"}
    /\ env.status = "error" => env.msg # ""
    /\ env.status = "success" => env.msg \notin FailureMessages

\* deploy_site has handed back the error envelope of the build_site it called
BuildEnvelopePassedOn ==
    /\ last.op = "deploy_site" /\ last.env.status = "error"
    /\ last.env.msg \in {BuildFailed, SiteMissing, Unexpected}
    /\ Len(last.cmds) <= 1
    /\ IsDir(last.pre.dirs, last.pre.cwd, last.args.site_path)

\* C10: every envelope an operation returns has status success, error or
\* partial; with status=error it has a message, with status=success it has
\* no message that describes a failure.  This holds of the envelope the last
\* call returned, build_site's envelope handed back by deploy_site included,
\* and of every envelope an operation would return in the present state.
C10_EnvelopeWellFormed ==
    /\ last.op # "none" /\ last.raised = "none" => WellFormed(last.env)
    /\ \A env \in StateEnvelopes \cup InstallEnvelopes \cup CatalogEnvelopes : WellFormed(env)

\* deploy_site returned the envelope of a build that exited non-zero
C10_BuildErrorPassedOn ==
    BuildEnvelopePassedOn /\ last.env.msg = BuildFailed

----------------------------------------------------------------------------
(* The causes of a failure, as the caller can tell them apart *)

\* the messages of the "except subprocess.CalledProcessError" clauses: the
\* external tool rejected the operation
ToolFailureMessages ==
    {FailedCreateSite, FailedCreatePost, FailedInstallTheme, FailedUpdateTheme,
     BuildFailed, GitHubPagesFailed, NetlifyFailed, VercelFailed, CustomFailed,
     InstallationFailed, FailedConfigureGit,
     HugoNotInstalled, GoNotInstalled, GitNotInstalled}

\* the messages of the "except Exception" clauses: an unexpected fault
\* inside the operation
InternalFaultMessages ==
    {Unexpected, DeploymentFailed, GitHubPagesFailed, NetlifyFailed, VercelFailed,
     CustomFailed, FailedStop, FailedListThemes, FailedThemeDetails}

ToolFailed(r) ==
    \E i \in 1..Len(r.cmds) : r.cmds[i].out = "fail" /\ ~r.cmds[i].caught

ExecutableMissing(r) ==
    \E i \in 1..Len(r.cmds) : r.cmds[i].out = "missing" /\ ~r.cmds[i].caught

\* C13: the three causes of a failure can be told apart from the envelope:
\* a command that exits non-zero gives the operation's tool-failure message,
\* which is not the message of an internal fault; a missing executable
\* gives a message that is neither the tool-failure message nor the message
\* of an internal fault.
C13_CausesDistinguishable ==
    last.op # "none" /\ last.raised = "none" =>
        /\ ToolFailed(last) =>
              /\ last.env.status = "error"
              /\ last.env.msg \in ToolFailureMessages \ InternalFaultMessages
        /\ ExecutableMissing(last) =>
              /\ last.env.status = "error"
              /\ last.env.msg \notin ToolFailureMessages \cup InternalFaultMessages

----------------------------------------------------------------------------
(* Requests in the event loop *)

\* src/main.py runs every tool as a coroutine of one event loop
\* (mcp.run(transport="stdio")).  A request the loop holds is a task; the
\* loop runs one task at a time and takes another one only where the
\* running task suspends.  A task's frame keeps the request, the directory
\* the operation selected with os.chdir, the commands it launched, and what
\* is left of its body: the body is the operation's code from the state the
\* task started in, cut at each subprocess.run.

MaxRequests == 2

T == <<"w", "t">>

BuiltSites == {Abs(S), Abs(<<"gone">>)}
DeployedSites == {Abs(T)}

Request(op, site, chosen, failAt) ==
    [op |-> op, site |-> site, chosen |-> chosen, failAt |-> failAt]

\* the requests a client sends: build_site of one site and deploy_site of
\* another one to GitHub Pages, with the exits of the tools they run
LoopRequests ==
    {Request("build_site", site, chosen, 0) : site \in BuiltSites, chosen \in ToolOutcomes}
    \cup {Request("deploy_site", site, chosen, failAt) :
            site \in DeployedSites, chosen \in ToolOutcomes, failAt \in {0, 2}}

Free == [state |-> "free"]

Tasks == 1..MaxRequests

\* the steps of a tool's body by kind: "check" (os.path.isdir), "chdir"
\* (os.chdir), "run" (subprocess.run, which blocks the thread until the
\* command has exited), "call" (await of build_site or of a _deploy_to_*
\* coroutine, which runs in the caller's task), "return".  The loop is
\* given back only by the await of a future, and no tool has one.
Suspends_at_run(kind) == kind \in {"future", "run"}

Suspends(kind) == kind = "future"

\* the loop runs task id: no other task holds it
MayStep(id) == loop.current \in {0, id}

\* who holds the loop after task id has made a step of this kind
After(id, kind) == IF Suspends(kind) THEN 0 ELSE id

\* the body of a request from the state (c, dirs, files)
Body(req, c, dirs, files, pth) ==
    IF req.op = "build_site"
    THEN build_site(c, dirs, files, pth, req.site, "public", FALSE, FALSE, req.chosen)
    ELSE deploy_site(c, dirs, files, pth, req.site, "github-pages", "public", "main",
                     "Update site", "", "", FALSE, req.chosen, req.failAt, "ok", << >>)

LoopArgs(req) ==
    IF req.op = "build_site"
    THEN [site_path |-> req.site, destination |-> "public"]
    ELSE [site_path |-> req.site, platform |-> "github-pages", remote_url |-> "",
          api_key |-> "", production |-> FALSE]

\* a client's request reaches the loop, which puts it in its first free
\* slot
Submit ==
    \E id \in Tasks, req \in LoopRequests :
        /\ loop.tasks[id].state = "free"
        /\ \A j \in 1..(id - 1) : loop.tasks[j].state # "free"
        /\ ~IsDir(fsDirs, cwd, req.site) \/ "hugo" \notin path => req.chosen = "ok"
        /\ req.chosen = "fail" => req.failAt = 0
        /\ loop' = [loop EXCEPT !.tasks[id] = [state |-> "submitted", req |-> req]]
        /\ UNCHANGED <<cwd, fsDirs, fsFiles, path, system, procs, active, last, prev>>

\* the tool's first lines: os.path.isdir(site_path), then either the error
\* envelope or os.chdir(site_path)
Start ==
    \E id \in Tasks :
        /\ loop.tasks[id].state = "submitted"
        /\ MayStep(id)
        /\ LET req == loop.tasks[id].req
               o   == Body(req, cwd, fsDirs, fsFiles, path)
           IN
           IF ~IsDir(fsDirs, cwd, req.site)
           THEN /\ last' = Done(req.op, "main", LoopArgs(req), o, Here, Here)
                /\ loop' = [tasks |-> [loop.tasks EXCEPT ![id] = Free], current |-> 0]
                /\ UNCHANGED cwd
           ELSE /\ cwd' = Resolve(cwd, req.site)
                /\ loop' = [tasks |-> [loop.tasks EXCEPT ![id] =
                                         [state |-> "running", req |-> req,
                                          dir |-> Resolve(cwd, req.site), pc |-> 1,
                                          body |-> o, pre |-> Here, cmds |-> << >>]],
                            current |-> After(id, "chdir")]
                /\ UNCHANGED last
        /\ UNCHANGED <<fsDirs, fsFiles, path, system, procs, active, prev>>

\* the next subprocess.run of the body, in the working directory the process
\* has at that moment; build_site's own os.chdir(site_path) comes before its
\* command
RunCommand ==
    \E id \in Tasks :
        /\ loop.tasks[id].state = "running"
        /\ MayStep(id)
        /\ LET f    == loop.tasks[id]
               cmd  == f.body.cmds[f.pc]
               here == IF cmd.exe = "hugo" THEN Resolve(cwd, f.req.site) ELSE cwd
           IN
           /\ f.pc <= Len(f.body.cmds)
           /\ cwd' = here
           /\ loop' = [tasks |-> [loop.tasks EXCEPT ![id] =
                                    [f EXCEPT !.pc = f.pc + 1,
                                              !.cmds = Append(f.cmds, [cmd EXCEPT !.dir = here])]],
                       current |-> After(id, "run")]
        /\ UNCHANGED <<fsDirs, fsFiles, path, system, procs, active, last, prev>>

\* the body is at its end: the tool returns its envelope, and what its
\* commands wrote is on the disk
Return ==
    \E id \in Tasks :
        /\ loop.tasks[id].state = "running"
        /\ MayStep(id)
        /\ LET f == loop.tasks[id] IN
           /\ f.pc > Len(f.body.cmds)
           /\ fsDirs' = fsDirs \cup f.body.dirs
           /\ fsFiles' = f.body.files @@ fsFiles
           /\ last' = Done(f.req.op, "main", LoopArgs(f.req),
                           [f.body EXCEPT !.cmds = f.cmds], f.pre,
                           Snapshot(cwd, fsDirs', fsFiles', procs))
           /\ loop' = [tasks |-> [loop.tasks EXCEPT ![id] = Free], current |-> 0]
        /\ UNCHANGED <<cwd, path, system, procs, active, prev>>

InitLoop ==
    /\ fsDirs = {<< >>, W, S, T}
    /\ fsFiles = [q \in {Append(S, "hugo.toml"), Append(T, "hugo.toml")} |->
                    <<<<"title = ", "'site'">>>>]
    /\ cwd = << >>
    /\ path \in {{"hugo", "git"}, {"hugo"}}
    /\ system = "linux"
    /\ procs = NoProcs
    /\ active = {}
    /\ last = Idle
    /\ prev = Brief(Idle)
    /\ loop = [tasks |-> [id \in Tasks |-> Free], current |-> 0]

NextLoop == Submit \/ Start \/ RunCommand \/ Return

SpecLoop == InitLoop /\ [][NextLoop]_vars

\* the requests whose tool has started and has not returned
InProgress == {id \in Tasks : loop.tasks[id].state = "running"}

Waiting == {id \in Tasks : loop.tasks[id].state = "submitted"}

\* C19: of the requests the loop holds, one at most is between its start and
\* its return, and it holds the loop until it returns; from that request's
\* os.chdir on the working directory is the one it selected, and each of its
\* commands has run there, in the running request and in the finished one.
C19_RequestsRunToCompletion ==
    /\ Cardinality(InProgress) <= 1
    /\ \A id \in InProgress :
          /\ loop.current = id
          /\ cwd = loop.tasks[id].dir
          /\ \A i \in 1..Len(loop.tasks[id].cmds) :
                loop.tasks[id].cmds[i].dir = loop.tasks[id].dir
    /\ last.op # "none" =>
          \A i \in 1..Len(last.cmds) :
              last.cmds[i].dir = Resolve(last.pre.cwd, last.args.site_path)

\* a request for another site has reached the loop while a deployment is
\* between two of its commands
C19_SecondRequestWaits ==
    \E a \in InProgress, b \in Waiting :
        /\ loop.tasks[b].req.site # loop.tasks[a].req.site
        /\ IsDir(fsDirs, cwd, loop.tasks[b].req.site)
        /\ loop.tasks[a].req.op = "deploy_site"
        /\ Len(loop.tasks[a].cmds) >= 1
        /\ loop.tasks[a].pc <= Len(loop.tasks[a].body.cmds)

----------------------------------------------------------------------------
(* A site_path that is no directory *)

SiteOps ==
    {"create_post", "list_content", "start_preview", "build_site", "install_theme",
     "update_theme", "deploy_site"}

\* paths that name nothing, and the path of a file
NoSites ==
    {a \in {Abs(<<"gone">>), Rel(<<"gone">>), Abs(Append(S, "hugo.toml")), Rel(<<"hugo.toml">>)} :
        ~IsDir(fsDirs, cwd, a)}

\* the operation answered with the message that names site_path, launched
\* nothing and left the working directory and the files as they were
Refused(o) ==
    /\ o.raised = "none"
    /\ o.env.status = "error"
    /\ o.env.msg = SiteMissing /\ o.env.detail = "site_path"
    /\ o.cmds = << >>
    /\ o.cwd = cwd /\ o.dirs = fsDirs /\ o.files = fsFiles

\* each of the seven operations called in the present state with a
\* site_path that is no directory, whatever its other arguments
RefusedEverywhere ==
    \A site \in NoSites, chosen \in ToolOutcomes, flag \in BOOLEAN, t \in Themes :
        /\ Refused(create_post(cwd, fsDirs, fsFiles, path, site, "hello", "posts", flag, "",
                               chosen, CHOOSE a \in Archetypes : TRUE))
        /\ Refused(list_content(cwd, fsDirs, fsFiles, site, "posts"))
        /\ Refused(start_preview(cwd, fsDirs, fsFiles, path, procs, active, site, "1313",
                                 "127.0.0.1", flag, flag, MaxPid, chosen = "fail"))
        /\ Refused(build_site(cwd, fsDirs, fsFiles, path, site, "public", flag, flag, chosen))
        /\ Refused(install_theme(cwd, fsDirs, fsFiles, path, site, t.name, t.url, flag,
                                 chosen, chosen))
        /\ Refused(update_theme(cwd, fsDirs, fsFiles, path, site, t.name, flag, chosen))
        /\ \A platform \in Platforms :
              Refused(deploy_site(cwd, fsDirs, fsFiles, path, site, platform, "public", "main",
                                  "Update site", "r", "", flag, chosen, 0, chosen, << >>))

\* C20: an operation that takes a site_path, called with one that is not an
\* existing directory, returns status=error with a message naming the path,
\* launches no external command and leaves the working directory and the
\* filesystem unchanged: so did the last call, and so would each of the
\* seven operations in the present state.
C20_MissingSiteRefused ==
    /\ last.op \in SiteOps /\ ~IsDir(last.pre.dirs, last.pre.cwd, last.args.site_path) =>
          /\ last.raised = "none"
          /\ last.env.status = "error"
          /\ last.env.msg = SiteMissing /\ last.env.detail = "site_path"
          /\ last.cmds = << >>
          /\ last.post.cwd = last.pre.cwd
          /\ last.post.dirs = last.pre.dirs
          /\ last.post.files = last.pre.files
    /\ RefusedEverywhere

\* deploy_site was called from the directory above the site with a path that
\* names nothing, after a build had written the site's output
C20_MissingSiteAfterBuild ==
    /\ last.op = "deploy_site"
    /\ ~IsDir(last.pre.dirs, last.pre.cwd, last.args.site_path)
    /\ Append(S, "public") \in last.pre.dirs
    /\ last.pre.cwd # << >>
    /\ NoSites # {}

----------------------------------------------------------------------------
(* What a failed create_site leaves behind *)

\* C30: whenever create_site returns status=error, the working directory,
\* the directories and the files are what they were before the call; no
\* target directory and no parent of it remains that the call has made.
C30_FailedCreateSiteLeavesNothing ==
    last.op = "create_site" /\ last.env.status = "error" =>
        /\ last.post.cwd = last.pre.cwd
        /\ last.post.dirs = last.pre.dirs
        /\ last.post.files = last.pre.files

====
